---- MODULE Spec2Model ----
(***************************************************************************)
(* CO-Monitor-Gateway: the XBee receive path (frame decoder, receive       *)
(* callbacks with duplicate suppression, reading parser), the queue-based  *)
(* hand-off to the upload thread and the rate-limited ThingSpeak client.   *)
(*                                                                         *)
(* Bytes are naturals 0..255, byte strings and texts are sequences of      *)
(* bytes (texts are ASCII, so a text and its UTF-8 encoding coincide).     *)
(***************************************************************************)
EXTENDS Integers, Sequences, FiniteSets, TLC

VARIABLES
    variant,          \* which receiver runs: "part1", "root", "multi", "part2"
    \* ---- Part 1 receiver (UART frame decoder) ----
    stream,           \* the bytes the radio link will deliver
    pos,              \* how many of them have reached the UART
    uart,             \* bytes waiting in the UART (uart.any() / uart.read())
    buffer,           \* self.buffer
    last_read,        \* what the last _read_api_frame call returned
    reads,            \* history: how many calls found bytes in the UART (2: several)
    returned,         \* history: the frames _read_api_frame returned
    readings1,        \* history: the readings update() stored
    \* ---- receive callbacks (root and Part 2 thingspeak_api_receiver.py) ----
    clock,            \* time.time() at the latest delivery, in tenths of a second
    last_frame_id,    \* self.last_frame_id (absent until first set)
    last_frame_time,  \* self.last_frame_time
    last_frame_ids,   \* self.last_frame_ids: sender -> payload (multi-node callback)
    last_frame_times, \* self.last_frame_times: sender -> time
    data_queue,       \* self.data_queue (absent until the upload thread creates it)
    deliveries,       \* history: every delivery to the callback and its outcome
    \* ---- ThingSpeakClient.send_data (times in seconds) ----
    now,              \* time.time()
    last_update_time, \* self.last_update_time
    spc,              \* per caller: where it is inside send_data
    wake,             \* per caller: when its time.sleep(wait_time) ends
    calls,            \* history: how many times send_data has been called
    call_start,       \* history, per caller: when its sink call started
    last_call,        \* history: the latest finished send_data call
    updates,          \* history: the sink updates that succeeded
    \* ---- process_thingspeak_data, the upload thread ----
    upc,              \* where the upload thread is
    data_buffer,      \* its local data_buffer
    last_upload_time, \* its local last_upload_time
    upload_current_time, \* its local current_time
    puts,             \* history: how many readings were put on the queue
    put_during_send,  \* history: the readings put while the thread was in send_data
    empty_ticks,      \* history: loop passes since the last flush that were due but had no data
    flushes,          \* history: the batches averaged
    \* ---- the polling upload loops of Part 2 and the callback that feeds them ----
    sensor,           \* self.temperature, humidity, ppm, temperatureF, last_received_time
    data_lock,        \* who holds self.data_lock
    cpc,              \* where the callback is
    cb_result,        \* the callback's local result
    ppc,              \* where the polling loop is
    last_processed_time, \* the polling loop's local last_processed_time
    collected,        \* its lists temp_points, humidity_points, ppm_points, tempF_points
    stored,           \* history: the readings the callback stored
    polled,           \* history: the data points the polling loop collected
    \* ---- parse_data called on its own ----
    parsed,           \* history: the calls of parse_data and what came of them
    unescaped,        \* history: the calls of _unescape_data and what they returned
    \* ---- two threads inside the root _data_received_callback ----
    tpc,              \* per thread: where it is inside the callback
    tnow,             \* per thread: its local current_time
    tmsg              \* per thread: the payload of its message

part1Vars == <<stream, pos, uart, buffer, last_read, reads, returned, readings1>>
dedupVars == <<last_frame_id, last_frame_time, last_frame_ids, last_frame_times>>
cbVars == <<clock, last_frame_id, last_frame_time, last_frame_ids, last_frame_times,
            data_queue, deliveries>>
sendVars == <<now, last_update_time, spc, wake, calls, call_start, last_call, updates>>
rxVars == <<variant, stream, pos, uart, buffer, last_read, reads, returned, readings1,
            clock, last_frame_id, last_frame_time, last_frame_ids, last_frame_times,
            deliveries>>
pipeVars == <<upc, data_buffer, last_upload_time, upload_current_time, puts,
              put_during_send, empty_ticks, flushes>>
pollVars == <<sensor, data_lock, cpc, cb_result, ppc, last_processed_time, collected, stored, polled>>
fnVars == <<parsed, unescaped>>
threadVars == <<tpc, tnow, tmsg>>
vars == <<variant, stream, pos, uart, buffer, last_read, reads, returned, readings1,
          clock, last_frame_id, last_frame_time, last_frame_ids, last_frame_times,
          data_queue, deliveries,
          now, last_update_time, spc, wake, calls, call_start, last_call, updates,
          upc, data_buffer, last_upload_time, upload_current_time, puts,
          put_during_send, empty_ticks, flushes,
          sensor, data_lock, cpc, cb_result, ppc, last_processed_time, collected, stored, polled,
          parsed, unescaped, tpc, tnow, tmsg>>

(***************************************************************************)
(* Bounds of the model.                                                    *)
(***************************************************************************)
MaxLen == 4          \* longest stream drawn over StreamBytes
MaxSegments == 2     \* most frames / noise segments concatenated to a stream
MaxDeliveries == 3   \* most messages delivered to a receive callback
TimeSpan == 24       \* seconds of time.time() the sender and the upload loop run for
MaxCalls == 3        \* most calls of send_data
MaxSinkTime == 1     \* most seconds one sink call takes
PipeSpan == 36       \* seconds of time.time() the upload thread runs for
MaxReadings == 2     \* most readings put on the hand-off queue
PollSpan == 20       \* seconds a polling loop is followed for
PollStep == 5        \* seconds between two looks at the clock while it runs
MaxParsed == 2       \* most calls of parse_data on its own
MaxEscaped == 3      \* longest input of _unescape_data
MaxUnescaped == 2    \* most calls of _unescape_data on its own
MaxPolled == 2       \* most readings the callback stores for the polling loops

(***************************************************************************)
(* Sequence helpers.                                                       *)
(***************************************************************************)
RECURSIVE SumSeq(_)
SumSeq(s) == IF s = <<>> THEN 0 ELSE Head(s) + SumSeq(Tail(s))

Drop(s, n) == SubSeq(s, n + 1, Len(s))
Take(s, n) == SubSeq(s, 1, n)

RECURSIVE SeqsUpTo(_, _)
SeqsUpTo(S, n) ==
    IF n = 0 THEN {<<>>}
    ELSE LET shorter == SeqsUpTo(S, n - 1)
         IN shorter \cup {Append(s, b) : s \in {t \in shorter : Len(t) = n - 1}, b \in S}

(***************************************************************************)
(* Part 1: APIReceiver._read_api_frame                                     *)
(***************************************************************************)
START_DELIMITER == 126
ESCAPE == 125

\* What a call returns: None, or the frame data (possibly empty).  raw is the
\* slice of the buffer (delimiter to checksum) the data was cut from.
NoFrame == [some |-> FALSE, data |-> <<>>, raw |-> <<>>]

\* checksum = 0xFF - (sum(frame[3 : total-1]) & 0xFF)
FrameChecksum(data) == 255 - (SumSeq(data) % 256)

\* Mutant: the checksum comparison is left out.
ChecksumAcceptsAny(frame, total) == TRUE

ChecksumAccepts(frame, total) ==
    FrameChecksum(SubSeq(frame, 4, total - 1)) = frame[total]

\* Mutant: a byte that is not the start delimiter is dropped together with
\* the byte after it.
RECURSIVE ReadLoopDropsTwo(_)
ReadLoopDropsTwo(buf) ==
    IF ~(Len(buf) > 3) THEN [buffer |-> buf, frame |-> NoFrame]
    ELSE IF buf[1] # START_DELIMITER THEN ReadLoopDropsTwo(Tail(Tail(buf)))
    ELSE IF Len(buf) < 3 THEN [buffer |-> buf, frame |-> NoFrame]
    ELSE LET frame_length == buf[2] * 256 + buf[3]
             total_frame_size == frame_length + 4
         IN IF Len(buf) < total_frame_size
            THEN [buffer |-> buf, frame |-> NoFrame]
            ELSE LET frame == Take(buf, total_frame_size)
                     rest == Drop(buf, total_frame_size)
                 IN IF ~ChecksumAccepts(frame, total_frame_size)
                    THEN ReadLoopDropsTwo(rest)
                    ELSE [buffer |-> rest,
                          frame |-> [some |-> TRUE,
                                     data |-> SubSeq(frame, 4, total_frame_size - 1),
                                     raw |-> frame]]

\* Mutant: after a checksum mismatch only the start delimiter is dropped, and
\* the search goes on inside the frame.
RECURSIVE ReadLoopResync(_)
ReadLoopResync(buf) ==
    IF ~(Len(buf) > 3) THEN [buffer |-> buf, frame |-> NoFrame]
    ELSE IF buf[1] # START_DELIMITER THEN ReadLoopResync(Tail(buf))
    ELSE IF Len(buf) < 3 THEN [buffer |-> buf, frame |-> NoFrame]
    ELSE LET frame_length == buf[2] * 256 + buf[3]
             total_frame_size == frame_length + 4
         IN IF Len(buf) < total_frame_size
            THEN [buffer |-> buf, frame |-> NoFrame]
            ELSE LET frame == Take(buf, total_frame_size)
                     rest == Drop(buf, total_frame_size)
                 IN IF ~ChecksumAccepts(frame, total_frame_size)
                    THEN ReadLoopResync(Tail(buf))
                    ELSE [buffer |-> rest,
                          frame |-> [some |-> TRUE,
                                     data |-> SubSeq(frame, 4, total_frame_size - 1),
                                     raw |-> frame]]

\* The while loop of _read_api_frame on the buffer contents buf.
RECURSIVE ReadLoop(_)
ReadLoop(buf) ==
    IF ~(Len(buf) > 3) THEN [buffer |-> buf, frame |-> NoFrame]
    ELSE IF buf[1] # START_DELIMITER THEN ReadLoop(Tail(buf))
    ELSE IF Len(buf) < 3 THEN [buffer |-> buf, frame |-> NoFrame]
    ELSE LET frame_length == buf[2] * 256 + buf[3]
             total_frame_size == frame_length + 4
         IN IF Len(buf) < total_frame_size
            THEN [buffer |-> buf, frame |-> NoFrame]
            ELSE LET frame == Take(buf, total_frame_size)
                     rest == Drop(buf, total_frame_size)
                 IN IF ~ChecksumAccepts(frame, total_frame_size)
                    THEN ReadLoop(rest)
                    ELSE [buffer |-> rest,
                          frame |-> [some |-> TRUE,
                                     data |-> SubSeq(frame, 4, total_frame_size - 1),
                                     raw |-> frame]]

\* data[i+1] ^ 0x20
Xor20(b) == IF (b \div 32) % 2 = 1 THEN b - 32 ELSE b + 32

\* _unescape_data, lines 283-299: an escape byte with a byte after it gives
\* that byte XORed with 0x20; an escape byte at the end is skipped.
RECURSIVE UnescapeData(_)
UnescapeData(data) ==
    IF data = <<>> THEN <<>>
    ELSE IF data[1] = ESCAPE
    THEN IF Len(data) > 1
         THEN <<Xor20(data[2])>> \o UnescapeData(Drop(data, 2))
         ELSE <<>>
    ELSE <<data[1]>> \o UnescapeData(Tail(data))

\* Mutant: the bytes buffered by earlier calls are forgotten.
ReadApiFrameForgets(u, buf) ==
    IF u = <<>> THEN [buffer |-> buf, frame |-> NoFrame]
    ELSE ReadLoop(u)

\* One call: nothing is done unless the UART has bytes; otherwise they are
\* appended to the buffer and the loop runs.
ReadApiFrame(u, buf) ==
    IF u = <<>> THEN [buffer |-> buf, frame |-> NoFrame]
    ELSE ReadLoop(buf \o u)

(***************************************************************************)
(* The streams the model feeds to the decoder.                             *)
(***************************************************************************)
StreamBytes == {0, 1, 126, 255}

MkFrame(data) ==
    <<START_DELIMITER, Len(data) \div 256, Len(data) % 256>> \o data
        \o <<FrameChecksum(data)>>

\* The same frame with its checksum byte changed.
Corrupt(frame) ==
    [frame EXCEPT ![Len(frame)] = (frame[Len(frame)] + 1) % 256]

(***************************************************************************)
(* Part 1: APIReceiver._process_rx_packet                                  *)
(***************************************************************************)
RX_PACKET_64 == 128
RX_PACKET_16 == 129
RX_PACKET == 144

NoText == [some |-> FALSE, text |-> <<>>]

\* bytes.decode('utf-8').  The byte strings of the model hold ASCII bytes and
\* bytes from 0xF8 up, which no UTF-8 text contains: decoding succeeds exactly
\* when every byte is ASCII, and then yields the same codes.
Utf8Decodes(bytes) == \A i \in 1..Len(bytes) : bytes[i] < 128

DecodeOrNone(rf_data) ==
    IF Utf8Decodes(rf_data) THEN [some |-> TRUE, text |-> rf_data] ELSE NoText

\* Mutant: the RF data of a 0x90 packet is cut one byte early.
ProcessRxPacketEarly(frame_data) ==
    IF Len(frame_data) < 1 THEN NoText
    ELSE LET frame_type == frame_data[1]
         IN IF frame_type = RX_PACKET
            THEN IF Len(frame_data) < 12 THEN NoText
                 ELSE DecodeOrNone(Drop(frame_data, 11))
            ELSE IF frame_type = RX_PACKET_16
            THEN IF Len(frame_data) < 5 THEN NoText
                 ELSE DecodeOrNone(Drop(frame_data, 5))
            ELSE IF frame_type = RX_PACKET_64
            THEN IF Len(frame_data) < 11 THEN NoText
                 ELSE DecodeOrNone(Drop(frame_data, 11))
            ELSE NoText

ProcessRxPacket(frame_data) ==
    IF Len(frame_data) < 1 THEN NoText
    ELSE LET frame_type == frame_data[1]
         IN IF frame_type = RX_PACKET
            THEN IF Len(frame_data) < 12 THEN NoText
                 ELSE DecodeOrNone(Drop(frame_data, 12))
            ELSE IF frame_type = RX_PACKET_16
            THEN IF Len(frame_data) < 5 THEN NoText
                 ELSE DecodeOrNone(Drop(frame_data, 5))
            ELSE IF frame_type = RX_PACKET_64
            THEN IF Len(frame_data) < 11 THEN NoText
                 ELSE DecodeOrNone(Drop(frame_data, 11))
            ELSE NoText

(***************************************************************************)
(* The reading parser: parse_data_string (Part 1) / parse_data.            *)
(***************************************************************************)
COLON == 58
COMMA == 44
DATA_PREFIX == <<68, 65, 84, 65, 58>>          \* "DATA:"

StartsWith(s, p) == Len(s) >= Len(p) /\ Take(s, Len(p)) = p

\* str.split(sep): the pieces between the separators, empty pieces kept.
RECURSIVE Split(_, _)
Split(s, sep) ==
    IF \A i \in 1..Len(s) : s[i] # sep THEN <<s>>
    ELSE LET i == CHOOSE i \in 1..Len(s) :
                      s[i] = sep /\ \A j \in 1..(i - 1) : s[j] # sep
         IN <<Take(s, i - 1)>> \o Split(Drop(s, i), sep)

\* float(tok).  The texts of the model spell numbers with decimal digits only
\* (no sign, point, exponent, blank, "inf" or "nan"), so float() succeeds
\* exactly on a non-empty digit string, with its decimal value.
IsDigit(c) == c >= 48 /\ c <= 57
FloatParses(tok) == tok # <<>> /\ \A i \in 1..Len(tok) : IsDigit(tok[i])

RECURSIVE FloatValue(_)
FloatValue(tok) ==
    IF tok = <<>> THEN 0
    ELSE 10 * FloatValue(Take(tok, Len(tok) - 1)) + (tok[Len(tok)] - 48)

ParseNone == [ok |-> FALSE, temperature |-> 0, humidity |-> 0, ppm |-> 0]

\* parts[i].split(':')[k], as the 1-based piece; IndexError is "missing".
FieldToken(parts, i, k) ==
    IF Len(parts) < i THEN [some |-> FALSE, tok |-> <<>>]
    ELSE LET pieces == Split(parts[i], COLON)
         IN IF Len(pieces) < k THEN [some |-> FALSE, tok |-> <<>>]
            ELSE [some |-> TRUE, tok |-> pieces[k]]

ParseDataString(data_string) ==
    IF ~StartsWith(data_string, DATA_PREFIX) THEN ParseNone
    ELSE LET parts == Split(data_string, COMMA)
             temp == FieldToken(parts, 1, 3)
             hum == FieldToken(parts, 2, 2)
             pp == FieldToken(parts, 3, 2)
         IN IF /\ temp.some /\ FloatParses(temp.tok)
               /\ hum.some /\ FloatParses(hum.tok)
               /\ pp.some /\ FloatParses(pp.tok)
            THEN [ok |-> TRUE, temperature |-> FloatValue(temp.tok),
                  humidity |-> FloatValue(hum.tok), ppm |-> FloatValue(pp.tok)]
            ELSE ParseNone

(***************************************************************************)
(* Texts and frames the model feeds in.                                    *)
(***************************************************************************)
TextA == <<68,65,84,65,58, 84,58, 50,54, 44, 72,58, 50,56, 44, 80,58, 53>>
                                                 \* "DATA:T:26,H:28,P:5"
TextB == <<68,65,84,65,58, 84,58, 50,52, 44, 72,58, 51,48, 44, 80,58, 55>>
                                                 \* "DATA:T:24,H:30,P:7"
TextBad == <<68,65,84,65,58, 84,58, 97,98, 44, 72,58, 50,56, 44, 80,58, 53>>
                                                 \* "DATA:T:ab,H:28,P:5"
TextShort == <<72,58, 50,56, 44, 80,58, 53>>     \* "H:28,P:5"

\* A 16-bit-address receive packet (0x81) around a text.
Rx16(text) == <<RX_PACKET_16, 0, 1, 40, 0>> \o text

\* A 64-bit-address receive packet (0x80) around a text: address, RSSI,
\* options.
Rx64(text) == <<RX_PACKET_64, 0, 19, 162, 0, 66, 1, 9, 23, 40, 0>> \o text

\* The header of a receive packet (0x90) as the documentation's example has
\* it: frame type, 64-bit address 0013A20042010917, network address FFFE,
\* options 01.
Rx90Header == <<RX_PACKET, 0, 19, 162, 0, 66, 1, 9, 23, 255, 254, 1>>
Rx90(text) == Rx90Header \o text

TextTemp26 == <<68,65,84,65,58, 84,69,77,80,58, 50,54>>      \* "DATA:TEMP:26"
TextDoc == <<68,65,84,65,58, 84,69,77,80,58, 50,54, 44, 72,85,77,58, 50,56, 44,
             80,80,77,58, 49,52,50,49,49,57,52>>
                                        \* "DATA:TEMP:26,HUM:28,PPM:1421194"

TextSwapped == <<68,65,84,65,58, 72,85,77,58, 50,56, 44, 84,69,77,80,58, 50,54, 44,
                 80,80,77,58, 53>>               \* "DATA:HUM:28,TEMP:26,PPM:5"

\* The documentation's end-to-end stream, byte for byte: length field 00 0C,
\* the header, "DATA:TEMP:26", and the checksum of all that.
ExampleStream ==
    <<START_DELIMITER, 0, 12>> \o Rx90(TextTemp26)
        \o <<FrameChecksum(Rx90(TextTemp26))>>

\* A 0x90 frame whose length field counts its bytes, around a text with the
\* three fields.
WholeExampleStream == MkFrame(Rx90(TextDoc))

\* One frame of each receive type, one after the other.
ThreeTagsStream ==
    MkFrame(Rx64(TextB)) \o MkFrame(Rx16(TextA)) \o MkFrame(Rx90(TextDoc))

\* A frame with a type byte that is no receive type, a 0x81 frame too short
\* for its header, and a frame with a reading after them.
OddFramesStream ==
    MkFrame(<<1, 0, 1, 40, 0>> \o TextB) \o MkFrame(<<RX_PACKET_16, 0, 1>>)
        \o MkFrame(Rx16(TextA))

\* A frame whose payload holds an escape byte: 01 7D 31.
EscapedFrameStream == MkFrame(<<1, ESCAPE, 49>>)

\* A frame with a wrong checksum whose payload is itself a whole frame
\* (7E 00 00 FF), and an intact frame after it.
NestedFrameStream == Corrupt(MkFrame(<<126, 0, 0, 255>>)) \o MkFrame(<<1>>)

\* Frames with bytes other than the start delimiter before them.
Noises == {<<0, 1>>, <<1, 0, 255>>, <<0, 0, 4, 1, 255>>}
NoisyStreams ==
    {noise \o frame : noise \in Noises,
                      frame \in {MkFrame(<<>>), MkFrame(<<126, 0>>),
                                 MkFrame(Rx16(TextA))}}

Segments == {MkFrame(<<>>), MkFrame(<<1>>), MkFrame(<<126, 0>>),
             Corrupt(MkFrame(<<1>>)), <<0>>}

\* Streams that carry readings.
ReadingStreams ==
    {MkFrame(Rx16(TextA)),
     Corrupt(MkFrame(Rx16(TextB))) \o MkFrame(Rx16(TextA)),
     MkFrame(Rx16(TextBad)) \o MkFrame(Rx16(TextB)),
     ExampleStream, WholeExampleStream,
     MkFrame(Rx16(TextSwapped)), MkFrame(Rx16(TextTemp26)),
     ThreeTagsStream, OddFramesStream, EscapedFrameStream, NestedFrameStream}

RECURSIVE Concats(_)
Concats(n) ==
    IF n = 0 THEN {<<>>}
    ELSE Concats(n - 1) \cup {s \o g : s \in Concats(n - 1), g \in Segments}

Streams ==
    SeqsUpTo(StreamBytes, MaxLen) \cup Concats(MaxSegments) \cup ReadingStreams
        \cup NoisyStreams

\* A bytearray payload of a message, as the root callbacks receive it.
TextNotUtf8 == <<68, 255>>

Senders == {"0013A20042010917", "0013A20042010919"}
Sender1 == CHOOSE s \in Senders : TRUE

\* The messages (payload, sender address) delivered to the root callbacks.
RootMessages ==
    {[data |-> TextA, sender |-> s] : s \in Senders}
        \cup {[data |-> d, sender |-> Sender1] : d \in {TextB, TextBad, TextNotUtf8}}

\* An attribute that does not exist yet (hasattr is false), and the queue.
NoFrameId == [set |-> FALSE, id |-> <<>>]
NoQueue == [exists |-> FALSE, items |-> <<>>]
EmptyQueue == [exists |-> TRUE, items |-> <<>>]

(***************************************************************************)
(* ThingSpeakClient.send_data.  Times are whole seconds of time.time().    *)
(* A caller is an execution context that calls send_data: the upload       *)
(* thread, and the receive callback of the variants that send from it.     *)
(***************************************************************************)
MIN_INTERVAL == 20
Callers == {"upload", "callback"}

\* time.time() when the program starts: far more than min_interval after the
\* initial last_update_time of 0, so that the first send never waits.
StartTime == MIN_INTERVAL
MaxTime == StartTime + TimeSpan

\* What channel.update(data) does: it raises, or returns a number (a positive
\* entry identifier, or zero or a negative number as a failure signal).
SinkResponses ==
    {[raised |-> TRUE, value |-> 0]}
        \cup {[raised |-> FALSE, value |-> v] : v \in {-1, 0, 1}}

NoCall == [caller |-> "none", response |-> [raised |-> FALSE, value |-> 0],
           returned_none |-> TRUE, before |-> 0, after |-> 0]

SendIdle ==
    /\ now = StartTime
    /\ last_update_time = 0
    /\ spc = [c \in Callers |-> "idle"]
    /\ wake = [c \in Callers |-> 0]
    /\ calls = 0
    /\ call_start = [c \in Callers |-> 0]
    /\ last_call = NoCall
    /\ updates = <<>>

\* The attributes as APIReceiver.__init__ of Part 2 sets them; no polling loop
\* runs.
NoSensor == [temperature |-> 0, humidity |-> 0, ppm |-> 0, temperatureF |-> 0,
             last_received_time |-> 0]
NoPoints == [temperature |-> <<>>, humidity |-> <<>>, ppm |-> <<>>,
             temperatureF |-> <<>>]
\* No thread is inside the callback.
Threads == {"listener", "reader"}
NoThreads ==
    /\ tpc = [t \in Threads |-> "idle"]
    /\ tnow = [t \in Threads |-> 0]
    /\ tmsg = [t \in Threads |-> <<>>]

NoPolling ==
    /\ sensor = NoSensor
    /\ data_lock = "none"
    /\ cpc = "idle"
    /\ cb_result = ParseNone
    /\ ppc = "none"
    /\ last_processed_time = 0
    /\ collected = NoPoints
    /\ stored = <<>>
    /\ polled = <<>>

\* The upload thread has not been started.
NoUploadThread ==
    /\ upc = "none"
    /\ data_buffer = <<>>
    /\ last_upload_time = 0
    /\ upload_current_time = 0
    /\ puts = 0
    /\ put_during_send = {}
    /\ empty_ticks = 0
    /\ flushes = <<>>

(***************************************************************************)
(* Part 1 actions.                                                         *)
(***************************************************************************)
InitPart1 ==
    /\ variant = "part1"
    /\ stream \in Streams
    /\ pos = 0
    /\ uart = <<>>
    /\ buffer = <<>>
    /\ last_read = "none yet"
    /\ reads = 0
    /\ returned = <<>>
    /\ readings1 = <<>>
    /\ clock = 0
    /\ last_frame_id = NoFrameId
    /\ last_frame_time = 0
    /\ last_frame_ids = [s \in Senders |-> NoFrameId]
    /\ last_frame_times = [s \in Senders |-> 0]
    /\ data_queue = NoQueue
    /\ deliveries = <<>>
    /\ SendIdle
    /\ NoUploadThread
    /\ NoPolling
    /\ parsed = <<>>
    /\ unescaped = <<>>
    /\ NoThreads

\* The link delivers the next byte of the stream to the UART; the bytes that
\* arrive between two reads are read together.
UartArrive ==
    /\ variant = "part1"
    /\ pos < Len(stream)
    /\ uart' = Append(uart, stream[pos + 1])
    /\ pos' = pos + 1
    /\ UNCHANGED <<variant, stream, buffer, last_read, reads, returned, readings1,
                   cbVars, sendVars, pipeVars, pollVars, fnVars, threadVars>>

\* Mutant: the text is taken after five bytes, whatever the frame is.
UpdateStoresAnyFrame(frame) ==
    IF ~frame.some \/ frame.data = <<>> THEN ParseNone
    ELSE LET data_string == DecodeOrNone(Drop(frame.data, 5))
         IN IF ~data_string.some \/ data_string.text = <<>> THEN ParseNone
            ELSE ParseDataString(data_string.text)

\* What update() stores for the frame a read returned, if anything:
\* "if frame_data", "if data_string", "if result".
UpdateStores(frame) ==
    IF ~frame.some \/ frame.data = <<>> THEN ParseNone
    ELSE LET data_string == ProcessRxPacket(frame.data)
         IN IF ~data_string.some \/ data_string.text = <<>> THEN ParseNone
            ELSE ParseDataString(data_string.text)

\* One call of update(): one call of _read_api_frame, then the extraction and
\* the parse of the frame it returned.
Update ==
    /\ variant = "part1"
    /\ LET r == ReadApiFrame(uart, buffer)
           result == UpdateStores(r.frame)
       IN /\ buffer' = r.buffer
          /\ uart' = <<>>
          /\ last_read' = IF r.frame.some THEN "frame" ELSE "None"
          /\ reads' = IF uart # <<>> /\ reads < 2 THEN reads + 1 ELSE reads
          /\ returned' = IF r.frame.some THEN Append(returned, r.frame) ELSE returned
          /\ readings1' = IF result.ok
                          THEN Append(readings1,
                                      [temperature |-> result.temperature,
                                       humidity |-> result.humidity,
                                       ppm |-> result.ppm,
                                       raw |-> r.frame.raw])
                          ELSE readings1
    /\ UNCHANGED <<variant, stream, pos, cbVars, sendVars, pipeVars, pollVars, fnVars, threadVars>>

(***************************************************************************)
(* The receive callbacks.  time.time() is read once per delivery; the      *)
(* model counts it in tenths of a second, and a delivery arrives a gap     *)
(* after the one before it.                                                *)
(***************************************************************************)
DEDUP_WINDOW == 10                    \* "< 1.0" seconds, in tenths
Gaps == {6, 10, 12}                   \* 0.6 s, 1.0 s, 1.2 s
RootGaps == Gaps \cup {3}             \* and 0.3 s, for the root callback

\* round((temperature * 9/5) + 32, 2), in tenths of a degree (exact for the
\* whole-degree temperatures of the model).
TemperatureF(temperature) == 18 * temperature + 320

\* "if hasattr(self, 'data_queue'): self.data_queue.put(item)"
QueuePut(q, item) ==
    IF q.exists THEN [q EXCEPT !.items = Append(@, item)] ELSE q

\* Mutant: the elapsed time is not looked at.
IsDuplicateNoWindow(stored_id, stored_time, frame_identifier, current_time) ==
    /\ stored_id.set
    /\ stored_id.id = frame_identifier

\* The duplicate test of _data_received_callback: both attributes exist, the
\* identifier is the stored one, and less than 1.0 s has passed.
IsDuplicate(stored_id, stored_time, frame_identifier, current_time) ==
    /\ stored_id.set
    /\ stored_id.id = frame_identifier
    /\ (current_time - stored_time) < DEDUP_WINDOW

\* parse_data of the root receiver: a bytearray is decoded first, and a
\* UnicodeDecodeError is a ValueError, caught with the others.
ParseData(data_string) ==
    IF ~Utf8Decodes(data_string) THEN ParseNone ELSE ParseDataString(data_string)

Reading(result, n) ==
    [temperature |-> result.temperature, humidity |-> result.humidity,
     ppm |-> result.ppm, temperatureF |-> TemperatureF(result.temperature),
     src |-> n]

\* What the root callback does with a message that passed the duplicate test.
\* The print under print_lock decodes the payload: a payload that is not UTF-8
\* raises there, which the callback's own except catches.
RootOutcome(data_payload, q) ==
    IF ~Utf8Decodes(data_payload) THEN "exception caught"
    ELSE IF ~ParseData(data_payload).ok THEN "parse failed"
    ELSE IF q.exists THEN "enqueued" ELSE "no queue"

Log(data, sender, t, outcome) ==
    Append(deliveries, [data |-> data, sender |-> sender, time |-> t,
                        outcome |-> outcome])

\* Mutant: a message that does not parse leaves the slot as it was.
DataReceivedCallbackKeepsSlot(data_payload, sender, current_time) ==
    IF IsDuplicate(last_frame_id, last_frame_time, data_payload, current_time)
    THEN /\ deliveries' = Log(data_payload, sender, current_time, "suppressed")
         /\ UNCHANGED <<last_frame_id, last_frame_time, data_queue>>
    ELSE LET outcome == RootOutcome(data_payload, data_queue)
             parses == outcome \in {"enqueued", "no queue"}
         IN /\ last_frame_id' = IF parses THEN [set |-> TRUE, id |-> data_payload]
                                 ELSE last_frame_id
            /\ last_frame_time' = IF parses THEN current_time ELSE last_frame_time
            /\ deliveries' = Log(data_payload, sender, current_time, outcome)
            /\ data_queue' =
                  IF outcome = "enqueued"
                  THEN QueuePut(data_queue,
                                Reading(ParseData(data_payload), Len(deliveries) + 1))
                  ELSE data_queue

\* Mutant: a suppressed duplicate restarts the window.
DataReceivedCallbackSlides(data_payload, sender, current_time) ==
    IF IsDuplicate(last_frame_id, last_frame_time, data_payload, current_time)
    THEN /\ deliveries' = Log(data_payload, sender, current_time, "suppressed")
         /\ last_frame_time' = current_time
         /\ UNCHANGED <<last_frame_id, data_queue>>
    ELSE LET outcome == RootOutcome(data_payload, data_queue)
         IN /\ last_frame_id' = [set |-> TRUE, id |-> data_payload]
            /\ last_frame_time' = current_time
            /\ deliveries' = Log(data_payload, sender, current_time, outcome)
            /\ data_queue' =
                  IF outcome = "enqueued"
                  THEN QueuePut(data_queue,
                                Reading(ParseData(data_payload), Len(deliveries) + 1))
                  ELSE data_queue

\* _data_received_callback of src/thingspeak_api_receiver.py, the callback that
\* open() registers.
DataReceivedCallback(data_payload, sender, current_time) ==
    IF IsDuplicate(last_frame_id, last_frame_time, data_payload, current_time)
    THEN /\ deliveries' = Log(data_payload, sender, current_time, "suppressed")
         /\ UNCHANGED <<last_frame_id, last_frame_time, data_queue>>
    ELSE LET outcome == RootOutcome(data_payload, data_queue)
         IN /\ last_frame_id' = [set |-> TRUE, id |-> data_payload]
            /\ last_frame_time' = current_time
            /\ deliveries' = Log(data_payload, sender, current_time, outcome)
            /\ data_queue' =
                  IF outcome = "enqueued"
                  THEN QueuePut(data_queue,
                                Reading(ParseData(data_payload), Len(deliveries) + 1))
                  ELSE data_queue

DataReceivedRoot ==
    /\ variant = "root"
    /\ Len(deliveries) < MaxDeliveries
    /\ \E xbee_message \in RootMessages, gap \in RootGaps :
          /\ clock' = clock + gap
          /\ DataReceivedCallback(xbee_message.data, xbee_message.sender, clock')
    /\ UNCHANGED <<variant, part1Vars, last_frame_ids, last_frame_times, sendVars, pipeVars, pollVars, fnVars, threadVars>>

\* _data_received_callback_multi: the duplicate slot is kept per sender, the
\* payload is printed undecoded, and the queue item names the sender.
MultiOutcome(data_payload, q) ==
    IF ~ParseData(data_payload).ok THEN "parse failed"
    ELSE IF q.exists THEN "enqueued" ELSE "no queue"

DataReceivedCallbackMulti(data_payload, sender, current_time) ==
    IF IsDuplicate(last_frame_ids[sender], last_frame_times[sender],
                   data_payload, current_time)
    THEN /\ deliveries' = Log(data_payload, sender, current_time, "suppressed")
         /\ UNCHANGED <<last_frame_ids, last_frame_times, data_queue>>
    ELSE LET outcome == MultiOutcome(data_payload, data_queue)
         IN /\ last_frame_ids' =
                  [last_frame_ids EXCEPT ![sender] = [set |-> TRUE, id |-> data_payload]]
            /\ last_frame_times' = [last_frame_times EXCEPT ![sender] = current_time]
            /\ deliveries' = Log(data_payload, sender, current_time, outcome)
            /\ data_queue' =
                  IF outcome = "enqueued"
                  THEN QueuePut(data_queue,
                                Reading(ParseData(data_payload), Len(deliveries) + 1))
                  ELSE data_queue

DataReceivedMulti ==
    /\ variant = "multi"
    /\ Len(deliveries) < MaxDeliveries
    /\ \E xbee_message \in RootMessages, gap \in Gaps :
          /\ clock' = clock + gap
          /\ DataReceivedCallbackMulti(xbee_message.data, xbee_message.sender, clock')
    /\ UNCHANGED <<variant, part1Vars, last_frame_id, last_frame_time, sendVars, pipeVars, pollVars, fnVars, threadVars>>

(***************************************************************************)
(* Part 2: verify_received_frame and its _data_received_callback, which    *)
(* treats the message data as a whole API frame.                           *)
(***************************************************************************)
TX_16 == 1
UNKNOWN_TEXT == <<85, 110, 107, 110, 111, 119, 110>>   \* "Unknown frame type ..."
ERROR_TEXT == <<69, 114, 114, 111, 114>>               \* "Error decoding data: ..."
INVALID_TEXT == <<73, 110, 118, 97, 108, 105, 100>>    \* "Invalid start delimiter"
LENGTH_TEXT == <<76, 101, 110, 103, 116, 104>>         \* "Length mismatch: ..."

\* (is_valid, calculated_checksum, received_checksum, decoded_data); checksums
\* tells whether the two checksums are numbers (TRUE) or None.
VerifyReceivedFrame(frame_bytes) ==
    IF Len(frame_bytes) < 5
    THEN [is_valid |-> FALSE, checksums |-> FALSE, calculated_checksum |-> 0,
          received_checksum |-> 0, decoded_data |-> <<>>]
    ELSE LET start_delimiter == frame_bytes[1]
             length == frame_bytes[2] * 256 + frame_bytes[3]
         IN IF start_delimiter # 126
            THEN [is_valid |-> FALSE, checksums |-> FALSE, calculated_checksum |-> 0,
                  received_checksum |-> 0, decoded_data |-> INVALID_TEXT]
            ELSE IF Len(frame_bytes) # length + 4
            THEN [is_valid |-> FALSE, checksums |-> FALSE, calculated_checksum |-> 0,
                  received_checksum |-> 0, decoded_data |-> LENGTH_TEXT]
            ELSE LET frame_data == SubSeq(frame_bytes, 4, Len(frame_bytes) - 1)
                     received_checksum == frame_bytes[Len(frame_bytes)]
                     calculated_checksum == 255 - (SumSeq(frame_data) % 256)
                     decoded_data ==
                         IF Len(frame_data) >= 5 /\ frame_data[1] = TX_16
                         THEN IF Utf8Decodes(Drop(frame_data, 4))
                              THEN Drop(frame_data, 4)
                              ELSE ERROR_TEXT
                         ELSE UNKNOWN_TEXT
                 IN [is_valid |-> calculated_checksum = received_checksum,
                     checksums |-> TRUE,
                     calculated_checksum |-> calculated_checksum,
                     received_checksum |-> received_checksum,
                     decoded_data |-> decoded_data]

\* Mutant: the callback goes on without looking at is_valid.
Part2OutcomeUnverified(raw_frame, q) ==
    LET v == VerifyReceivedFrame(raw_frame)
    IN IF ~v.checksums THEN "raised"
       ELSE IF ~ParseDataString(v.decoded_data).ok THEN "parse failed"
       ELSE IF q.exists THEN "enqueued" ELSE "no queue"

\* What the Part 2 callback does with a frame that passed the duplicate test.
\* Formatting a None checksum with :02X raises TypeError outside any try.
Part2Outcome(raw_frame, q) ==
    LET v == VerifyReceivedFrame(raw_frame)
    IN IF ~v.checksums THEN "raised"
       ELSE IF ~v.is_valid THEN "invalid frame"
       ELSE IF ~ParseDataString(v.decoded_data).ok THEN "parse failed"
       ELSE IF q.exists THEN "enqueued" ELSE "no queue"

DataReceivedCallback2(raw_frame, sender, current_time) ==
    IF IsDuplicate(last_frame_id, last_frame_time, raw_frame, current_time)
    THEN /\ deliveries' = Log(raw_frame, sender, current_time, "suppressed")
         /\ UNCHANGED <<last_frame_id, last_frame_time, data_queue>>
    ELSE LET outcome == Part2Outcome(raw_frame, data_queue)
         IN /\ last_frame_id' = [set |-> TRUE, id |-> raw_frame]
            /\ last_frame_time' = current_time
            /\ deliveries' = Log(raw_frame, sender, current_time, outcome)
            /\ data_queue' =
                  IF outcome = "enqueued"
                  THEN QueuePut(data_queue,
                                Reading(ParseDataString(
                                            VerifyReceivedFrame(raw_frame).decoded_data),
                                        Len(deliveries) + 1))
                  ELSE data_queue

\* A 16-bit transmit frame (0x01) around a text: type, frame id, destination.
Tx16(text) == <<TX_16, 1, 0, 2>> \o text

Part2Frames == {MkFrame(Tx16(TextA)), Corrupt(MkFrame(Tx16(TextA))),
                MkFrame(Tx16(TextBad)), MkFrame(<<RX_PACKET_16, 0>>),
                MkFrame(<<>>), <<0, 0, 1, 1, 254>>, <<126, 0, 9, 1, 254>>}

DataReceivedPart2 ==
    /\ variant = "part2"
    /\ Len(deliveries) < MaxDeliveries
    /\ \E raw_frame \in Part2Frames, gap \in Gaps :
          /\ clock' = clock + gap
          /\ DataReceivedCallback2(raw_frame, Sender1, clock')
    /\ UNCHANGED <<variant, part1Vars, last_frame_ids, last_frame_times, sendVars, pipeVars, pollVars, fnVars, threadVars>>

InitCallbacks ==
    /\ variant \in {"root", "multi", "part2"}
    /\ stream = <<>>
    /\ pos = 0
    /\ uart = <<>>
    /\ buffer = <<>>
    /\ last_read = "none yet"
    /\ reads = 0
    /\ returned = <<>>
    /\ readings1 = <<>>
    /\ clock = 0
    /\ last_frame_id = NoFrameId
    /\ last_frame_time = 0
    /\ last_frame_ids = [s \in Senders |-> NoFrameId]
    /\ last_frame_times = [s \in Senders |-> 0]
    /\ data_queue \in {NoQueue, EmptyQueue}
    /\ deliveries = <<>>
    /\ SendIdle
    /\ NoUploadThread
    /\ NoPolling
    /\ parsed = <<>>
    /\ unescaped = <<>>
    /\ NoThreads

InitRx == InitPart1 \/ InitCallbacks
NextRx == UartArrive \/ Update \/ DataReceivedRoot \/ DataReceivedMulti
              \/ DataReceivedPart2
SpecRx == InitRx /\ [][NextRx]_vars

\* continuous_monitoring calls update() for ever ("while True", lines 437-447):
\* a call that can change something is not put off for ever.  Bytes may stop
\* arriving at any point.
InitRxLive == InitPart1 /\ stream \in Concats(MaxSegments)
NextRxLive == UartArrive \/ Update
SpecRxLive == InitRxLive /\ [][NextRxLive]_vars /\ WF_vars(Update)

(***************************************************************************)
(* The root _data_received_callback run by two threads: the library's      *)
(* listener thread, for which open() registers it, and the main thread,    *)
(* whose update() hands it the message read_data returned.  The upload     *)
(* thread creates the queue when it starts.  No lock is held around the    *)
(* duplicate test and the two assignments that follow it, so a thread      *)
(* takes one of these steps at a time.                                     *)
(***************************************************************************)
\* time.time() when monitoring begins: far enough from 0 for the 0 that stands
\* for a last_frame_time not stored yet to be outside every window.
ThreadStart == 20
ThreadSpan == 12                      \* the clock stops 1.2 s later
ThreadStep == 3                       \* it moves in steps of 0.3 s
ThreadMessages == {TextA, TextB, TextBad}

\* What the other threads leave alone.
ThreadFrame ==
    UNCHANGED <<variant, part1Vars, last_frame_ids, last_frame_times, sendVars,
                pipeVars, pollVars, fnVars>>

\* Lines 448-455: the call, data_payload and current_time = time.time().
ThreadEnter(t) ==
    /\ tpc[t] = "idle"
    /\ \E data_payload \in ThreadMessages :
          tmsg' = [tmsg EXCEPT ![t] = data_payload]
    /\ tnow' = [tnow EXCEPT ![t] = clock]
    /\ tpc' = [tpc EXCEPT ![t] = "test"]
    /\ UNCHANGED <<clock, last_frame_id, last_frame_time, data_queue, deliveries>>

\* Lines 458-461: the duplicate test, and the return of a duplicate.
ThreadTest(t) ==
    /\ tpc[t] = "test"
    /\ IF IsDuplicate(last_frame_id, last_frame_time, tmsg[t], tnow[t])
       THEN /\ tpc' = [tpc EXCEPT ![t] = "done"]
            /\ deliveries' = Log(tmsg[t], Sender1, tnow[t], "suppressed")
       ELSE /\ tpc' = [tpc EXCEPT ![t] = "store id"]
            /\ UNCHANGED deliveries
    /\ UNCHANGED <<clock, last_frame_id, last_frame_time, data_queue, tnow, tmsg>>

\* Line 464: self.last_frame_id = frame_identifier
ThreadStoreId(t) ==
    /\ tpc[t] = "store id"
    /\ last_frame_id' = [set |-> TRUE, id |-> tmsg[t]]
    /\ tpc' = [tpc EXCEPT ![t] = "store time"]
    /\ UNCHANGED <<clock, last_frame_time, data_queue, deliveries, tnow, tmsg>>

\* Line 465: self.last_frame_time = current_time
ThreadStoreTime(t) ==
    /\ tpc[t] = "store time"
    /\ last_frame_time' = tnow[t]
    /\ tpc' = [tpc EXCEPT ![t] = "parse"]
    /\ UNCHANGED <<clock, last_frame_id, data_queue, deliveries, tnow, tmsg>>

\* Lines 479-501: the print, parse_data, and for a reading the hasattr test
\* and the put.
ThreadParseAndPut(t) ==
    /\ tpc[t] = "parse"
    /\ LET outcome == RootOutcome(tmsg[t], data_queue)
       IN /\ deliveries' = Log(tmsg[t], Sender1, tnow[t], outcome)
          /\ data_queue' =
                IF outcome = "enqueued"
                THEN QueuePut(data_queue,
                              Reading(ParseData(tmsg[t]), Len(deliveries) + 1))
                ELSE data_queue
    /\ tpc' = [tpc EXCEPT ![t] = "done"]
    /\ UNCHANGED <<clock, last_frame_id, last_frame_time, tnow, tmsg>>

\* process_thingspeak_data, line 716: self.data_queue = queue.Queue(), the
\* first statement of the upload thread that main() started.
UploadThreadCreatesQueue ==
    /\ variant = "threads"
    /\ ~data_queue.exists
    /\ data_queue' = EmptyQueue
    /\ UNCHANGED <<clock, last_frame_id, last_frame_time, deliveries, threadVars>>
    /\ ThreadFrame

ThreadStep1(t) ==
    /\ variant = "threads"
    /\ \/ ThreadEnter(t)
       \/ ThreadTest(t)
       \/ ThreadStoreId(t)
       \/ ThreadStoreTime(t)
       \/ ThreadParseAndPut(t)
    /\ ThreadFrame

ThreadTimePasses ==
    /\ variant = "threads"
    /\ clock + ThreadStep <= ThreadStart + ThreadSpan
    /\ clock' = clock + ThreadStep
    /\ UNCHANGED <<last_frame_id, last_frame_time, data_queue, deliveries, threadVars>>
    /\ ThreadFrame

\* main() has started the upload thread (line 885) and monitoring has begun;
\* time.time() is far from 0, and no message has been received.
InitThreads ==
    /\ variant = "threads"
    /\ stream = <<>>
    /\ pos = 0
    /\ uart = <<>>
    /\ buffer = <<>>
    /\ last_read = "none yet"
    /\ reads = 0
    /\ returned = <<>>
    /\ readings1 = <<>>
    /\ clock = ThreadStart
    /\ last_frame_id = NoFrameId
    /\ last_frame_time = 0
    /\ last_frame_ids = [s \in Senders |-> NoFrameId]
    /\ last_frame_times = [s \in Senders |-> 0]
    /\ data_queue = NoQueue
    /\ deliveries = <<>>
    /\ SendIdle
    /\ NoUploadThread
    /\ NoPolling
    /\ parsed = <<>>
    /\ unescaped = <<>>
    /\ NoThreads

NextThreads ==
    \/ \E t \in Threads : ThreadStep1(t)
    \/ UploadThreadCreatesQueue
    \/ ThreadTimePasses
SpecThreads == InitThreads /\ [][NextThreads]_vars

(***************************************************************************)
(* send_data, step by step.                                                *)
(***************************************************************************)
\* Mutant: send_data never waits.
WaitTimeNone(current_time, last) == 0

\* wait_time = min_interval - (current_time - last_update_time), or 0 when the
\* interval has elapsed.
WaitTime(current_time, last) ==
    IF current_time - last < MIN_INTERVAL
    THEN MIN_INTERVAL - (current_time - last)
    ELSE 0

\* Lines 169-175: the rate-limit test; the caller sleeps, or goes on to the
\* sink call at once.
SendEnter(c) ==
    /\ spc[c] = "idle"
    /\ calls' = calls + 1
    /\ LET current_time == now
           wait_time == WaitTime(current_time, last_update_time)
       IN IF wait_time > 0
          THEN /\ spc' = [spc EXCEPT ![c] = "sleep"]
               /\ wake' = [wake EXCEPT ![c] = now + wait_time]
               /\ UNCHANGED call_start
          ELSE /\ spc' = [spc EXCEPT ![c] = "update"]
               /\ call_start' = [call_start EXCEPT ![c] = now]
               /\ UNCHANGED wake
    /\ UNCHANGED <<now, last_update_time, last_call, updates>>

\* time.sleep(wait_time) is over: channel.update(data) is called.
SendWake(c) ==
    /\ spc[c] = "sleep"
    /\ now >= wake[c]
    /\ spc' = [spc EXCEPT ![c] = "update"]
    /\ call_start' = [call_start EXCEPT ![c] = now]
    /\ UNCHANGED <<now, last_update_time, wake, calls, last_call, updates>>

\* send_data counts a response as a success unless it equals 0.
ResponseIsSuccess(response) == ~response.raised /\ response.value # 0

\* Lines 186-198: the sink call returns or raises; send_data returns the
\* response, or None.
SinkReturn(c, response) ==
    /\ spc[c] = "update"
    /\ spc' = [spc EXCEPT ![c] = "idle"]
    /\ last_update_time' = IF ResponseIsSuccess(response) THEN now
                           ELSE last_update_time
    /\ last_call' = [caller |-> c, response |-> response,
                     returned_none |-> ~ResponseIsSuccess(response),
                     before |-> last_update_time, after |-> last_update_time']
    /\ updates' = IF ~response.raised /\ response.value > 0
                  THEN Append(updates, [start |-> call_start[c], end |-> now])
                  ELSE updates
    /\ UNCHANGED <<now, wake, calls, call_start>>

\* A second passes, unless a sleep is over or a sink call has taken its time.
Tick(horizon) ==
    /\ now < horizon
    /\ \A c \in Callers : spc[c] = "sleep" => now < wake[c]
    /\ \A c \in Callers : spc[c] = "update" => now - call_start[c] < MaxSinkTime
    /\ now' = now + 1
    /\ UNCHANGED <<last_update_time, spc, wake, calls, call_start, last_call, updates>>

(***************************************************************************)
(* The sender alone: callers that call send_data again and again.          *)
(***************************************************************************)
\* No receiver runs.
NoReceiver ==
    /\ stream = <<>>
    /\ pos = 0
    /\ uart = <<>>
    /\ buffer = <<>>
    /\ last_read = "none yet"
    /\ reads = 0
    /\ returned = <<>>
    /\ readings1 = <<>>
    /\ clock = 0
    /\ last_frame_id = NoFrameId
    /\ last_frame_time = 0
    /\ last_frame_ids = [s \in Senders |-> NoFrameId]
    /\ last_frame_times = [s \in Senders |-> 0]
    /\ deliveries = <<>>

InitSend ==
    /\ variant = "sender"
    /\ NoReceiver
    /\ data_queue = NoQueue
    /\ SendIdle
    /\ NoUploadThread
    /\ NoPolling
    /\ parsed = <<>>
    /\ unescaped = <<>>
    /\ NoThreads

CallSendData(c) ==
    /\ calls < MaxCalls
    /\ SendEnter(c)
    /\ UNCHANGED <<rxVars, fnVars, threadVars, data_queue, pipeVars, pollVars>>

Sleeping(c) == SendWake(c) /\ UNCHANGED <<rxVars, fnVars, threadVars, data_queue, pipeVars, pollVars>>

SinkAnswers(c) ==
    /\ \E response \in SinkResponses : SinkReturn(c, response)
    /\ UNCHANGED <<rxVars, fnVars, threadVars, data_queue, pipeVars, pollVars>>

TimePasses == Tick(MaxTime) /\ UNCHANGED <<rxVars, fnVars, threadVars, data_queue, pipeVars, pollVars>>

SendStep(c) == CallSendData(c) \/ Sleeping(c) \/ SinkAnswers(c)

\* One thread calls send_data.
NextSend1 == TimePasses \/ SendStep("upload")
SpecSend1 == InitSend /\ [][NextSend1]_vars

\* Two execution contexts call send_data of the same client.
NextSend2 == TimePasses \/ \E c \in Callers : SendStep(c)
SpecSend2 == InitSend /\ [][NextSend2]_vars

(***************************************************************************)
(* process_thingspeak_data: the upload thread, with the receive callback   *)
(* that feeds its queue.  Times are whole seconds.                         *)
(***************************************************************************)
FLUSH_INTERVAL == 15
PipeMaxTime == StartTime + PipeSpan

\* The payloads the callback is given while the upload thread runs.
PipeTexts == {TextA, TextB, TextBad}

\* parse_data of each of them
PipeResults == {ParseData(data_payload) : data_payload \in PipeTexts}

\* sum(point[k] for point in data_buffer), for the field named f
RECURSIVE SumField(_, _)
SumField(points, f) ==
    IF points = <<>> THEN 0
    ELSE Head(points)[f] + SumField(Tail(points), f)

\* Mutant: every average sums the temperature column.
AverageOfTemperature(points, f) ==
    [sum |-> SumField(points, "temperature"), over |-> Len(points)]

\* sum / num_points, kept as the exact quotient sum over num_points
Average(points, f) == [sum |-> SumField(points, f), over |-> Len(points)]

\* Lines 758-763: what one flush computes from data_buffer.
Averages(points, t) ==
    [points |-> points,
     num_points |-> Len(points),
     avg_temp |-> Average(points, "temperature"),
     avg_humidity |-> Average(points, "humidity"),
     avg_ppm |-> Average(points, "ppm"),
     avg_tempF |-> Average(points, "temperatureF"),
     time |-> t]

\* The history entry of one flush: what it computed, how many empty passes
\* came before it, and what send_data returned ("pending" until it returns).
FlushRecord(points, t, ticks) ==
    [averages |-> Averages(points, t), points |-> points, time |-> t,
     empty_ticks |-> ticks, success |-> "pending",
     response |-> [raised |-> FALSE, value |-> 0]]

\* Mutant: the flush leaves the batch in data_buffer.
BufferKept(points) == points

\* Line 791: data_buffer = []
BufferAfterFlush(points) == <<>>

\* Mutant: the timestamp advances by one interval, so that missed intervals
\* are caught up.
NextUploadTimeCatchUp(last, t) == last + FLUSH_INTERVAL

\* Line 790: last_upload_time = current_time
NextUploadTime(last, t) == t

\* Mutant: a failed send ends the loop.
AfterSendStopsOnFailure(success) == IF success THEN "sleep" ELSE "ended"

\* Lines 773-794: whatever send_data returned, the thread prints, resets and
\* goes on to time.sleep(1).
AfterSend(success) == "sleep"

\* Lines 716-720: the thread creates the queue and its locals.
UploadStart ==
    /\ upc = "start"
    /\ data_queue' = EmptyQueue
    /\ data_buffer' = <<>>
    /\ last_upload_time' = now
    /\ upc' = "drain"
    /\ UNCHANGED <<rxVars, fnVars, threadVars, pollVars, sendVars, upload_current_time, puts,
                   put_during_send, empty_ticks, flushes>>

\* Lines 733-746: data_queue.get returned an item; data_buffer.append.
QueueGet ==
    /\ upc = "drain"
    /\ data_queue.items # <<>>
    /\ data_buffer' = Append(data_buffer, Head(data_queue.items))
    /\ data_queue' = [data_queue EXCEPT !.items = Tail(@)]
    /\ UNCHANGED <<rxVars, fnVars, threadVars, pollVars, sendVars, upc, last_upload_time, upload_current_time,
                   puts, put_during_send, empty_ticks, flushes>>

\* Mutant: the interval is not looked at.
FlushIsDueAnyTime(t) == data_buffer # <<>>

\* "current_time - last_upload_time >= 15 and data_buffer"
FlushIsDue(t) == t - last_upload_time >= FLUSH_INTERVAL /\ data_buffer # <<>>

\* Lines 748-771: queue.Empty ends the drain; the flush is due, the averages
\* are computed and send_data is called.
FlushStart ==
    /\ upc = "drain"
    /\ data_queue.items = <<>>
    /\ FlushIsDue(now)
    /\ upload_current_time' = now
    /\ flushes' = Append(flushes, FlushRecord(data_buffer, now, empty_ticks))
    /\ empty_ticks' = 0
    /\ SendEnter("upload")
    /\ upc' = "send"
    /\ UNCHANGED <<rxVars, fnVars, threadVars, pollVars, data_queue, data_buffer, last_upload_time, puts, put_during_send>>

\* Lines 748-754: queue.Empty ends the drain; no flush is due: the interval
\* has not elapsed, or it has and data_buffer is empty.
FlushNotDue ==
    /\ upc = "drain"
    /\ data_queue.items = <<>>
    /\ ~FlushIsDue(now)
    /\ upc' = "sleep"
    /\ empty_ticks' = IF now - last_upload_time >= FLUSH_INTERVAL
                      THEN empty_ticks + 1 ELSE empty_ticks
    /\ UNCHANGED <<rxVars, fnVars, threadVars, pollVars, sendVars, data_queue, data_buffer, last_upload_time,
                   upload_current_time, puts, put_during_send, flushes>>

\* The upload thread inside send_data.
UploadSendWake ==
    /\ upc = "send"
    /\ SendWake("upload")
    /\ UNCHANGED <<rxVars, fnVars, threadVars, data_queue, pipeVars, pollVars>>

UploadSinkAnswers ==
    /\ upc = "send"
    /\ \E response \in SinkResponses : SinkReturn("upload", response)
    /\ UNCHANGED <<rxVars, fnVars, threadVars, data_queue, pipeVars, pollVars>>

\* Lines 773-791: send_data has returned; "if success" picks the message, the
\* timestamp is set and the buffer is cleared, whatever send_data returned.
FlushDone ==
    /\ upc = "send"
    /\ spc["upload"] = "idle"
    /\ LET success == ~last_call.returned_none
       IN /\ flushes' = [flushes EXCEPT
                          ![Len(flushes)].success = IF success THEN "sent" ELSE "failed",
                          ![Len(flushes)].response = last_call.response]
          /\ upc' = AfterSend(success)
    /\ last_upload_time' = NextUploadTime(last_upload_time, upload_current_time)
    /\ data_buffer' = BufferAfterFlush(data_buffer)
    /\ UNCHANGED <<rxVars, fnVars, threadVars, pollVars, sendVars, data_queue, upload_current_time, puts,
                   put_during_send, empty_ticks>>

\* Line 794: time.sleep(1), and the loop starts over.
UploadSleep ==
    /\ upc = "sleep"
    /\ Tick(PipeMaxTime)
    /\ upc' = "drain"
    /\ UNCHANGED <<rxVars, fnVars, threadVars, pollVars, data_queue, data_buffer, last_upload_time,
                   upload_current_time, puts, put_during_send, empty_ticks, flushes>>

\* Lines 484-501 of the root callback, run by the receive thread: the payload
\* has been parsed, and the reading is put on the queue if there is a result
\* and the queue exists.
CallbackPut ==
    /\ puts < MaxReadings
    /\ \E result \in PipeResults :
         LET put == result.ok /\ data_queue.exists
         IN /\ data_queue' = IF result.ok
                             THEN QueuePut(data_queue, Reading(result, puts + 1))
                             ELSE data_queue
            /\ puts' = IF put THEN puts + 1 ELSE puts
            /\ put_during_send' = IF put /\ upc = "send"
                                  THEN put_during_send \cup {puts + 1}
                                  ELSE put_during_send
    /\ UNCHANGED <<rxVars, fnVars, threadVars, pollVars, sendVars, upc, data_buffer, last_upload_time,
                   upload_current_time, empty_ticks, flushes>>

\* A second passes while the upload thread is inside send_data.
PipeTimePasses ==
    /\ upc = "send"
    /\ spc["upload"] # "idle"
    /\ Tick(PipeMaxTime)
    /\ UNCHANGED <<rxVars, fnVars, threadVars, data_queue, pipeVars, pollVars>>

InitPipe ==
    /\ variant = "pipeline"
    /\ NoReceiver
    /\ data_queue = NoQueue
    /\ SendIdle
    /\ upc = "start"
    /\ data_buffer = <<>>
    /\ last_upload_time = 0
    /\ upload_current_time = 0
    /\ puts = 0
    /\ put_during_send = {}
    /\ empty_ticks = 0
    /\ flushes = <<>>
    /\ NoPolling
    /\ parsed = <<>>
    /\ unescaped = <<>>
    /\ NoThreads

NextPipe ==
    \/ UploadStart
    \/ QueueGet
    \/ FlushStart
    \/ FlushNotDue
    \/ UploadSendWake
    \/ UploadSinkAnswers
    \/ FlushDone
    \/ UploadSleep
    \/ CallbackPut
    \/ PipeTimePasses

SpecPipe == InitPipe /\ [][NextPipe]_vars

(***************************************************************************)
(* Part 2: the callback that stores a reading in the receiver's attributes *)
(* and the upload loops that poll the attributes.  Each step is one        *)
(* attribute store or load, the unit at which the interpreter switches     *)
(* threads.                                                                *)
(***************************************************************************)
PollMaxTime == StartTime + PollSpan

\* Time passes, unless a sleep is over or a sink call has taken its time.
PollTick(horizon) ==
    /\ now < horizon
    /\ \A c \in Callers : spc[c] = "sleep" => now < wake[c]
    /\ \A c \in Callers : spc[c] = "update" => now - call_start[c] < MaxSinkTime
    /\ now' = now + PollStep
    /\ UNCHANGED <<last_update_time, spc, wake, calls, call_start, last_call, updates>>

\* The payloads the callback is given while a polling loop runs, parsed.
PollResults == {ParseData(data_payload) : data_payload \in PipeTexts}

\* The four attributes of a reading, in the order both sides go through them.
NextField(f) ==
    CASE f = "temperature" -> "humidity"
      [] f = "humidity" -> "ppm"
      [] f = "ppm" -> "temperatureF"
      [] OTHER -> "done"

\* The reading that result makes once the callback has stored all of it.
StoredReading(result) ==
    [temperature |-> result.temperature, humidity |-> result.humidity,
     ppm |-> result.ppm, temperatureF |-> TemperatureF(result.temperature)]

\* Lines 383-417 of _data_received_callback_works: the frame is verified and
\* parsed; with no result the callback reports the failure and returns.
CallbackParse ==
    /\ cpc = "idle"
    /\ Len(stored) < MaxPolled
    /\ \E result \in PollResults :
         /\ cb_result' = result
         /\ cpc' = IF result.ok THEN "lock" ELSE "idle"
    /\ UNCHANGED <<rxVars, fnVars, threadVars, data_queue, sendVars, pipeVars, sensor, data_lock, ppc,
                   last_processed_time, collected, stored, polled>>

\* Line 419: "with self.data_lock:"
CallbackLock ==
    /\ cpc = "lock"
    /\ data_lock = "none"
    /\ data_lock' = "callback"
    /\ cpc' = "temperature"
    /\ UNCHANGED <<rxVars, fnVars, threadVars, data_queue, sendVars, pipeVars, sensor, cb_result, ppc,
                   last_processed_time, collected, stored, polled>>

\* Line 420: "self.temperature, self.humidity, self.ppm = result", one
\* attribute store at a time.
CallbackStore ==
    /\ cpc \in {"temperature", "humidity", "ppm"}
    /\ sensor' = [sensor EXCEPT ![cpc] = cb_result[cpc]]
    /\ cpc' = NextField(cpc)
    /\ UNCHANGED <<rxVars, fnVars, threadVars, data_queue, sendVars, pipeVars, data_lock, cb_result, ppc,
                   last_processed_time, collected, stored, polled>>

\* Line 423: self.temperatureF = round((self.temperature * 9/5) + 32, 2)
CallbackStoreF ==
    /\ cpc = "temperatureF"
    /\ sensor' = [sensor EXCEPT !.temperatureF = TemperatureF(sensor.temperature)]
    /\ cpc' = "stamp"
    /\ UNCHANGED <<rxVars, fnVars, threadVars, data_queue, sendVars, pipeVars, data_lock, cb_result, ppc,
                   last_processed_time, collected, stored, polled>>

\* Line 424: self.last_received_time = time.time(), and the lock is released.
\* The loops only compare these timestamps with each other and with 0: the
\* k-th reading stored is stamped k.
CallbackStamp ==
    /\ cpc = "stamp"
    /\ sensor' = [sensor EXCEPT !.last_received_time = Len(stored) + 1]
    /\ stored' = Append(stored, StoredReading(cb_result))
    /\ data_lock' = "none"
    /\ cpc' = "send"
    /\ UNCHANGED <<rxVars, fnVars, threadVars, data_queue, sendVars, pipeVars, cb_result, ppc,
                   last_processed_time, collected, polled>>

\* Lines 437-447: the callback calls send_data itself.
CallbackSend ==
    /\ cpc = "send"
    /\ SendEnter("callback")
    /\ cpc' = "sending"
    /\ UNCHANGED <<rxVars, fnVars, threadVars, data_queue, pipeVars, sensor, data_lock, cb_result, ppc,
                   last_processed_time, collected, stored, polled>>

CallbackSendWake ==
    /\ cpc = "sending"
    /\ SendWake("callback")
    /\ UNCHANGED <<rxVars, fnVars, threadVars, data_queue, pipeVars, pollVars>>

\* Lines 448-457: send_data has returned, the outcome is logged.
CallbackSinkAnswers ==
    /\ cpc = "sending"
    /\ \E response \in SinkResponses : SinkReturn("callback", response)
    /\ cpc' = "idle"
    /\ UNCHANGED <<rxVars, fnVars, threadVars, data_queue, pipeVars, sensor, data_lock, cb_result, ppc,
                   last_processed_time, collected, stored, polled>>

\* Lines 775-781 (norace), 842-851 (race_datavar_no_update): the lists and the
\* locals of the loop.
PollStart ==
    /\ ppc = "start"
    /\ collected' = NoPoints
    /\ last_upload_time' = now
    /\ last_processed_time' = 0
    /\ ppc' = "check"
    /\ UNCHANGED <<rxVars, fnVars, threadVars, data_queue, sendVars, upc, data_buffer, upload_current_time,
                   puts, put_during_send, empty_ticks, flushes, sensor, data_lock,
                   cpc, cb_result, stored, polled>>

\* Line 786 "if self.last_received_time > 0", line 856
\* "if self.last_received_time > last_processed_time"
HasNewData ==
    IF variant = "norace" THEN sensor.last_received_time > 0
    ELSE sensor.last_received_time > last_processed_time

PollCheck ==
    /\ ppc = "check"
    /\ ppc' = IF HasNewData THEN "temperature" ELSE "flush"
    /\ UNCHANGED <<rxVars, fnVars, threadVars, data_queue, sendVars, pipeVars, sensor, data_lock, cpc,
                   cb_result, last_processed_time, collected, stored, polled>>

\* Lines 788-791, 858-861: temp_points.append(self.temperature) and the three
\* appends after it, each reading the attribute as it is at that moment.
PollAppend ==
    /\ ppc \in {"temperature", "humidity", "ppm", "temperatureF"}
    /\ collected' = [collected EXCEPT ![ppc] = Append(@, sensor[ppc])]
    /\ polled' = IF ppc = "temperatureF"
                 THEN Append(polled,
                        [temperature |-> collected.temperature[Len(collected.temperature)],
                         humidity |-> collected.humidity[Len(collected.humidity)],
                         ppm |-> collected.ppm[Len(collected.ppm)],
                         temperatureF |-> sensor.temperatureF])
                 ELSE polled
    /\ ppc' = IF ppc = "temperatureF" THEN "mark" ELSE NextField(ppc)
    /\ UNCHANGED <<rxVars, fnVars, threadVars, data_queue, sendVars, pipeVars, sensor, data_lock, cpc,
                   cb_result, last_processed_time, stored>>

\* Line 795 "self.last_received_time = 0", line 864
\* "last_processed_time = self.last_received_time"
PollMark ==
    /\ ppc = "mark"
    /\ IF variant = "norace"
       THEN /\ sensor' = [sensor EXCEPT !.last_received_time = 0]
            /\ UNCHANGED last_processed_time
       ELSE /\ last_processed_time' = sensor.last_received_time
            /\ UNCHANGED sensor
    /\ ppc' = "flush"
    /\ UNCHANGED <<rxVars, fnVars, threadVars, data_queue, sendVars, pipeVars, data_lock, cpc, cb_result,
                   collected, stored, polled>>

\* "current_time - last_upload_time >= 15 and temp_points"
PollFlushIsDue(t) ==
    t - last_upload_time >= FLUSH_INTERVAL /\ collected.temperature # <<>>

\* Lines 797-811, 866-894: the flush is due; the averages are computed and
\* send_data is called.  race_datavar_no_update copies the lists and clears
\* them before the call.
PollFlushStart ==
    /\ ppc = "flush"
    /\ PollFlushIsDue(now)
    /\ upload_current_time' = now
    /\ collected' = IF variant = "norace" THEN collected ELSE NoPoints
    /\ SendEnter("upload")
    /\ ppc' = "send"
    /\ UNCHANGED <<rxVars, fnVars, threadVars, data_queue, upc, data_buffer, last_upload_time, puts,
                   put_during_send, empty_ticks, flushes, sensor, data_lock, cpc,
                   cb_result, last_processed_time, stored, polled>>

PollFlushNotDue ==
    /\ ppc = "flush"
    /\ ~PollFlushIsDue(now)
    /\ ppc' = "sleep"
    /\ UNCHANGED <<rxVars, fnVars, threadVars, data_queue, sendVars, pipeVars, sensor, data_lock, cpc,
                   cb_result, last_processed_time, collected, stored, polled>>

\* The polling loop inside send_data.
PollSendWake ==
    /\ ppc = "send"
    /\ SendWake("upload")
    /\ UNCHANGED <<rxVars, fnVars, threadVars, data_queue, pipeVars, pollVars>>

PollSinkAnswers ==
    /\ ppc = "send"
    /\ \E response \in SinkResponses : SinkReturn("upload", response)
    /\ UNCHANGED <<rxVars, fnVars, threadVars, data_queue, pipeVars, pollVars>>

\* Lines 819-824, 914: send_data has returned; last_upload_time is set, and
\* norace clears its lists here.
PollFlushDone ==
    /\ ppc = "send"
    /\ spc["upload"] = "idle"
    /\ last_upload_time' = upload_current_time
    /\ collected' = IF variant = "norace" THEN NoPoints ELSE collected
    /\ ppc' = "sleep"
    /\ UNCHANGED <<rxVars, fnVars, threadVars, data_queue, sendVars, upc, data_buffer, upload_current_time,
                   puts, put_during_send, empty_ticks, flushes, sensor, data_lock,
                   cpc, cb_result, last_processed_time, stored, polled>>

\* Lines 827, 917: time.sleep(0.1), and the loop starts over; the clock may
\* have moved on since the last look.
PollSleep ==
    /\ ppc = "sleep"
    /\ ppc' = "check"
    /\ \/ PollTick(PollMaxTime)
       \/ UNCHANGED sendVars
    /\ UNCHANGED <<rxVars, fnVars, threadVars, data_queue, pipeVars, sensor, data_lock, cpc, cb_result,
                   last_processed_time, collected, stored, polled>>

\* Time passes while the polling loop is inside send_data.
PollTimePasses ==
    /\ ppc = "send"
    /\ spc["upload"] # "idle"
    /\ PollTick(PollMaxTime)
    /\ UNCHANGED <<rxVars, fnVars, threadVars, data_queue, pipeVars, pollVars>>

InitPoll ==
    /\ variant \in {"norace", "race_datavar"}
    /\ NoReceiver
    /\ data_queue = NoQueue
    /\ SendIdle
    /\ NoUploadThread
    /\ sensor = NoSensor
    /\ data_lock = "none"
    /\ cpc = "idle"
    /\ cb_result = ParseNone
    /\ ppc = "start"
    /\ last_processed_time = 0
    /\ collected = NoPoints
    /\ stored = <<>>
    /\ polled = <<>>
    /\ parsed = <<>>
    /\ unescaped = <<>>
    /\ NoThreads

NextPoll ==
    \/ CallbackParse
    \/ CallbackLock
    \/ CallbackStore
    \/ CallbackStoreF
    \/ CallbackStamp
    \/ CallbackSend
    \/ CallbackSendWake
    \/ CallbackSinkAnswers
    \/ PollStart
    \/ PollCheck
    \/ PollAppend
    \/ PollMark
    \/ PollFlushStart
    \/ PollFlushNotDue
    \/ PollSendWake
    \/ PollSinkAnswers
    \/ PollFlushDone
    \/ PollSleep
    \/ PollTimePasses

SpecPoll == InitPoll /\ [][NextPoll]_vars

(***************************************************************************)
(* parse_data (root) called on its own, on inputs of the three types a     *)
(* payload can have.  What is raised inside its try is named, so that the  *)
(* except clause is something the model applies.                           *)
(***************************************************************************)
\* Texts as a str, and payloads as a bytearray or as immutable bytes.
ParseTexts == {TextA, TextBad, TextShort, TextTemp26, TextSwapped}
ParseInputs ==
    {[kind |-> "str", data |-> d] : d \in ParseTexts}
        \cup {[kind |-> k, data |-> d] :
                 k \in {"bytearray", "bytes"}, d \in ParseTexts \cup {TextNotUtf8}}

\* What float(parts[i].split(':')[k]) raises, if anything.
FieldRaises(parts, i, k) ==
    LET token == FieldToken(parts, i, k)
    IN IF ~token.some THEN "IndexError"
       ELSE IF ~FloatParses(token.tok) THEN "ValueError"
       ELSE "none"

\* What the body of the try raises, lines 613-639.  Only a bytearray is
\* decoded (UnicodeDecodeError is a ValueError); bytes reach
\* data_string.startswith("DATA:"), which is a TypeError for bytes.
ParseDataRaises(input) ==
    IF input.kind = "bytearray" /\ ~Utf8Decodes(input.data) THEN "ValueError"
    ELSE IF input.kind = "bytes" THEN "TypeError"
    ELSE IF ~StartsWith(input.data, DATA_PREFIX) THEN "none"
    ELSE LET parts == Split(input.data, COMMA)
         IN IF FieldRaises(parts, 1, 3) # "none" THEN FieldRaises(parts, 1, 3)
            ELSE IF FieldRaises(parts, 2, 2) # "none" THEN FieldRaises(parts, 2, 2)
            ELSE FieldRaises(parts, 3, 2)

\* Mutant: only IndexError is caught.
CaughtIndexErrorOnly(exception) == exception = "IndexError"

\* "except (IndexError, ValueError) as e"
Caught(exception) == exception \in {"IndexError", "ValueError"}

\* One call of parse_data: the tuple or None it returns, or the exception that
\* leaves it.
ParseDataCall(input) ==
    LET exception == ParseDataRaises(input)
    IN IF exception = "none"
       THEN [raised |-> FALSE, result |-> ParseDataString(input.data)]
       ELSE IF Caught(exception)
       THEN [raised |-> FALSE, result |-> ParseNone]
       ELSE [raised |-> TRUE, result |-> ParseNone]

InitParse ==
    /\ variant = "parse"
    /\ NoReceiver
    /\ data_queue = NoQueue
    /\ SendIdle
    /\ NoUploadThread
    /\ NoPolling
    /\ parsed = <<>>
    /\ unescaped = <<>>
    /\ NoThreads

CallParseData ==
    /\ variant = "parse"
    /\ Len(parsed) < MaxParsed
    /\ \E input \in ParseInputs :
         parsed' = Append(parsed, [input |-> input, outcome |-> ParseDataCall(input)])
    /\ UNCHANGED <<rxVars, data_queue, sendVars, pipeVars, pollVars, unescaped, threadVars>>

NextParse == CallParseData

SpecParse == InitParse /\ [][NextParse]_vars

(***************************************************************************)
(* _unescape_data (Part 1) called on its own: no other function of the     *)
(* receiver calls it.                                                      *)
(***************************************************************************)
EscapeBytes == {ESCAPE, 94, 1}
EscapedInputs == SeqsUpTo(EscapeBytes, MaxEscaped)

InitUnescape ==
    /\ variant = "unescape"
    /\ NoReceiver
    /\ data_queue = NoQueue
    /\ SendIdle
    /\ NoUploadThread
    /\ NoPolling
    /\ parsed = <<>>
    /\ unescaped = <<>>
    /\ NoThreads

CallUnescapeData ==
    /\ variant = "unescape"
    /\ Len(unescaped) < MaxUnescaped
    /\ \E data \in EscapedInputs :
         unescaped' = Append(unescaped,
                             [input |-> data,
                              outcome |-> [some |-> TRUE, data |-> UnescapeData(data)]])
    /\ UNCHANGED <<rxVars, data_queue, sendVars, pipeVars, pollVars, parsed, threadVars>>

NextUnescape == CallUnescapeData

SpecUnescape == InitUnescape /\ [][NextUnescape]_vars

(***************************************************************************)
(* Properties of the receive path, checked under SpecRx.                   *)
(***************************************************************************)
\* The wire format's rule, stated on a whole frame: the last byte is
\* 0xFF - (sum of the bytes between the length field and the last byte) & 0xFF.
TrailingChecksumOK(f) ==
    /\ Len(f) >= 4
    /\ f[Len(f)] = 255 - (SumSeq(SubSeq(f, 4, Len(f) - 1)) % 256)

QueueSources == {data_queue.items[k].src : k \in DOMAIN data_queue.items}

\* C2: a frame whose trailing checksum byte is wrong never yields a payload.
\* Every frame _read_api_frame returned was cut from a slice whose checksum
\* byte is right, and in the Part 2 callback a frame with a wrong checksum byte
\* is reported invalid and puts no reading on the queue.
C2_CorruptFrameNeverYieldsPayload ==
    /\ \A i \in DOMAIN returned :
          /\ TrailingChecksumOK(returned[i].raw)
          /\ returned[i].data = SubSeq(returned[i].raw, 4, Len(returned[i].raw) - 1)
    /\ variant = "part2" =>
          \A i \in DOMAIN deliveries :
              ~TrailingChecksumOK(deliveries[i].data) =>
                  /\ ~VerifyReceivedFrame(deliveries[i].data).is_valid
                  /\ deliveries[i].outcome # "enqueued"
                  /\ i \notin QueueSources

\* A corrupted frame followed by the intact one has been read completely: only
\* the intact one was returned.
C2_Witness ==
    /\ variant = "part1"
    /\ stream = Corrupt(MkFrame(<<1>>)) \o MkFrame(<<1>>)
    /\ pos = Len(stream) /\ uart = <<>> /\ buffer = <<>>
    /\ Len(returned) = 1
    /\ returned[1].data = <<1>>

\* The frames a decoder returns when the stream reaches it one byte per call.
RECURSIVE BytewiseFrom(_, _, _)
BytewiseFrom(s, i, buf) ==
    IF i > Len(s) THEN <<>>
    ELSE LET r == ReadApiFrame(<<s[i]>>, buf)
         IN (IF r.frame.some THEN <<r.frame.data>> ELSE <<>>)
                \o BytewiseFrom(s, i + 1, r.buffer)

ReturnedData == [i \in DOMAIN returned |-> returned[i].data]

\* The whole stream was taken in by a single read, and a later call returned
\* no frame.
SingleReadDone ==
    /\ variant = "part1"
    /\ pos = Len(stream) /\ uart = <<>>
    /\ reads = 1
    /\ last_read = "None"

\* C3: chunking invariance.  Delivering the stream in a single read and calling
\* _read_api_frame until it returns no frame yields the same frame payloads as
\* delivering it one byte per call.
C3_ChunkingInvariance ==
    SingleReadDone => ReturnedData = BytewiseFrom(stream, 1, <<>>)

\* Delivery i repeats the payload of the delivery just before it, which was
\* processed (not itself suppressed).
RepeatsAccepted(i) ==
    /\ i > 1
    /\ deliveries[i].data = deliveries[i - 1].data
    /\ deliveries[i - 1].outcome # "suppressed"

\* C4: the same payload delivered twice in succession.  Less than 1.0 s after
\* the first, the second delivery is suppressed and enqueues nothing; more than
\* 1.0 s after it, the second is processed like the first, and when the first
\* was enqueued both readings are on the queue.
C4_DuplicateWithinWindow ==
    variant \in {"root", "part2"} =>
        \A i \in DOMAIN deliveries :
            RepeatsAccepted(i) =>
                LET gap == deliveries[i].time - deliveries[i - 1].time
                IN /\ gap < DEDUP_WINDOW =>
                          /\ deliveries[i].outcome = "suppressed"
                          /\ i \notin QueueSources
                   /\ gap > DEDUP_WINDOW =>
                          /\ deliveries[i].outcome = deliveries[i - 1].outcome
                          /\ deliveries[i - 1].outcome = "enqueued" =>
                                 {i - 1, i} \subseteq QueueSources

\* The same payload three times: 1.2 s after the first it is enqueued again,
\* 0.6 s after that it is suppressed.
C4_Witness ==
    /\ variant = "root"
    /\ Len(deliveries) = 3
    /\ \A i \in 1..3 : deliveries[i].data = TextA
    /\ deliveries[2].time - deliveries[1].time = 12
    /\ deliveries[3].time - deliveries[2].time = 6
    /\ deliveries[1].outcome = "enqueued"
    /\ deliveries[2].outcome = "enqueued"
    /\ deliveries[3].outcome = "suppressed"
    /\ Len(data_queue.items) = 2

\* C5: in the callback that open() registers, deduplication is per sender.  A
\* payload identical to the one last accepted, but from another sender and
\* within 1.0 s of it, is not suppressed.
C5_DedupPerSender ==
    variant = "root" =>
        \A i \in DOMAIN deliveries :
            (/\ i > 1
             /\ deliveries[i].data = deliveries[i - 1].data
             /\ deliveries[i - 1].outcome = "enqueued"
             /\ deliveries[i].sender # deliveries[i - 1].sender
             /\ deliveries[i].time - deliveries[i - 1].time < DEDUP_WINDOW)
                => /\ deliveries[i].outcome = "enqueued"
                   /\ i \in QueueSources

\* C6: every reading on the queue (every reading update() stored, in Part 1)
\* comes from a message that passed the checksum validation of its receiver and
\* that the parser accepted; its values are the parsed ones.
C6_OnlyValidatedReadingsEnqueued ==
    /\ \A k \in DOMAIN data_queue.items :
          LET item == data_queue.items[k]
              d == deliveries[item.src]
              text == IF variant = "part2" THEN Drop(SubSeq(d.data, 4, Len(d.data) - 1), 4)
                      ELSE d.data
          IN /\ item.src \in DOMAIN deliveries
             /\ d.outcome = "enqueued"
             /\ variant = "part2" => TrailingChecksumOK(d.data)
             /\ ParseDataString(text).ok
             /\ item.temperature = ParseDataString(text).temperature
             /\ item.humidity = ParseDataString(text).humidity
             /\ item.ppm = ParseDataString(text).ppm
    /\ \A k \in DOMAIN readings1 :
          LET raw == readings1[k].raw
              data_string == ProcessRxPacket(SubSeq(raw, 4, Len(raw) - 1))
              result == ParseDataString(data_string.text)
          IN /\ TrailingChecksumOK(raw)
             /\ data_string.some
             /\ result.ok
             /\ result.temperature = readings1[k].temperature
             /\ result.humidity = readings1[k].humidity
             /\ result.ppm = readings1[k].ppm

\* Part 2: an intact frame was enqueued and its corrupted copy was refused.
C6_Witness ==
    /\ variant = "part2"
    /\ Len(deliveries) = 2
    /\ deliveries[1].data = Corrupt(MkFrame(Tx16(TextA)))
    /\ deliveries[1].outcome = "invalid frame"
    /\ deliveries[2].data = MkFrame(Tx16(TextA))
    /\ deliveries[2].outcome = "enqueued"
    /\ Len(data_queue.items) = 1
    /\ data_queue.items[1].temperature = 26


(***************************************************************************)
(* Properties of the hand-off between the callback and the upload thread,  *)
(* checked under SpecPipe.                                                 *)
(***************************************************************************)
\* In how many averaged batches the reading with this number was counted.
FlushCount(id) ==
    Cardinality({<<k, i>> \in (DOMAIN flushes) \X (1..MaxReadings) :
                    /\ i \in DOMAIN flushes[k].points
                    /\ flushes[k].points[i].src = id})

Occurrences(points, id) ==
    Cardinality({i \in DOMAIN points : points[i].src = id})

\* How many times the reading is still waiting to be averaged.  During the
\* send of a flush data_buffer still holds the batch just averaged.
Waiting(id) ==
    Occurrences(data_queue.items, id)
        + (IF upc = "send" THEN 0 ELSE Occurrences(data_buffer, id))

\* C1: every reading put on the queue is, at any moment and under any
\* interleaving of the callback with the upload thread, either waiting once in
\* the queue or the buffer, or counted in exactly one flush's average; none is
\* dropped and none is counted twice, also when it arrives during send_data.
C1_EveryReadingCountedOnce ==
    /\ \A id \in 1..puts : FlushCount(id) + Waiting(id) = 1
    /\ upc = "send" => data_buffer = flushes[Len(flushes)].points

\* A reading that was put while the upload thread was inside send_data has
\* been counted in a later flush.
C1_Witness ==
    \E id \in put_during_send : FlushCount(id) = 1

(***************************************************************************)
(* Properties of send_data, checked under SpecSend1 (one caller) and       *)
(* SpecSend2 (two callers).                                                *)
(***************************************************************************)
\* The sink's own success signal: a positive identifier.
SinkSucceeded(response) == ~response.raised /\ response.value > 0

\* C7: with a single caller, any two consecutive successful sink updates are
\* at least min_interval seconds apart: the later sink call starts no earlier
\* than min_interval after the earlier one returned.
C7_SuccessiveUpdatesSpaced ==
    \A i \in 1..(Len(updates) - 1) :
        updates[i + 1].start - updates[i].end >= MIN_INTERVAL

\* Two updates have succeeded, the second after send_data waited out exactly
\* the remaining time.
C7_Witness ==
    /\ variant = "sender"
    /\ Len(updates) >= 2
    /\ updates[2].start = updates[1].end + MIN_INTERVAL

\* C8: with two execution contexts calling send_data of one client, at most
\* one sink update call is in flight at any time, and successive successful
\* updates are separated by at least min_interval.
C8_OneInFlightAndSpaced ==
    /\ Cardinality({c \in Callers : spc[c] = "update"}) <= 1
    /\ \A i \in 1..(Len(updates) - 1) :
           updates[i + 1].start - updates[i].start >= MIN_INTERVAL

\* C9: send_data changes last_update_time only when the sink call returned a
\* success signal; when the sink call raises or returns a failure signal (zero
\* or negative), last_update_time is what it was before the call.
C9_LastUpdateTimeOnlyOnSuccess ==
    last_call.caller # "none" =>
        (~SinkSucceeded(last_call.response) => last_call.after = last_call.before)

\* C10: send_data returns None and leaves last_update_time unchanged whenever
\* the sink returns zero or a negative value, and returns something other
\* than None only for a positive identifier.
C10_FailureForZeroOrNegative ==
    last_call.caller # "none" =>
        /\ (~last_call.response.raised /\ last_call.response.value <= 0)
               => (last_call.returned_none /\ last_call.after = last_call.before)
        /\ ~last_call.returned_none => SinkSucceeded(last_call.response)

(***************************************************************************)
(* Properties of the upload loop's cadence, checked under SpecPipe.        *)
(***************************************************************************)
\* When the flush before flush k was started; for the first flush, when the
\* loop started (no time passes before the thread has set itself up).
PreviousFlushTime(k) == IF k = 1 THEN StartTime ELSE flushes[k - 1].time

\* C11: a flush, and with it a send, is started no earlier than 15 s after the
\* flush before it was started, and the first one no earlier than 15 s after
\* the loop started; no send is attempted apart from a flush, whatever has
\* been buffered in the meantime.
C11_FlushesAtLeastIntervalApart ==
    /\ \A k \in DOMAIN flushes :
           flushes[k].time - PreviousFlushTime(k) >= FLUSH_INTERVAL
    /\ calls = Len(flushes)
    /\ spc["upload"] # "idle" => upc = "send"

\* After a flush, readings are in the buffer, the interval has not elapsed and
\* the loop has gone to sleep without sending.
C11_Witness ==
    /\ Len(flushes) >= 1
    /\ last_upload_time = flushes[Len(flushes)].time
    /\ upc = "sleep"
    /\ data_buffer # <<>>
    /\ now - last_upload_time < FLUSH_INTERVAL
    /\ calls = Len(flushes)

\* The four averages of a flush.
AverageFields == {"avg_temp", "avg_humidity", "avg_ppm", "avg_tempF"}

\* C12: a pass of the loop that finds the interval elapsed and the buffer
\* empty sends nothing and averages nothing (no flush divides by zero); a
\* flush that comes after such empty passes restarts the interval from its
\* own time, so the flush after it is a full interval later and the missed
\* intervals are not caught up.
C12_EmptyTickNoFlushNoCatchUp ==
    /\ \A k \in DOMAIN flushes :
           /\ flushes[k].averages.num_points >= 1
           /\ \A f \in AverageFields : flushes[k].averages[f].over >= 1
    /\ empty_ticks > 0 => (upc # "send" /\ spc["upload"] = "idle")
    /\ (flushes # <<>> /\ upc # "send") =>
           last_upload_time = flushes[Len(flushes)].time
    /\ \A k \in DOMAIN flushes :
           (k > 1 /\ flushes[k - 1].empty_ticks > 0) =>
               flushes[k].time - flushes[k - 1].time >= FLUSH_INTERVAL

\* Several passes were due with an empty buffer, then one flush took the
\* readings that had arrived, and a reading that came after it is waiting.
C12_Witness ==
    /\ Len(flushes) = 1
    /\ flushes[1].empty_ticks >= 2
    /\ flushes[1].success # "pending"
    /\ upc = "sleep"
    /\ data_buffer # <<>>

(***************************************************************************)
(* Properties of what a flush computes, checked under SpecPipe.            *)
(***************************************************************************)
\* Which field of a reading each average is taken over.
FieldOf == [avg_temp |-> "temperature", avg_humidity |-> "humidity",
            avg_ppm |-> "ppm", avg_tempF |-> "temperatureF"]

\* The total of a field over the readings numbered 1..n of a batch.
RECURSIVE TotalUpTo(_, _, _)
TotalUpTo(points, f, n) ==
    IF n = 0 THEN 0 ELSE TotalUpTo(points, f, n - 1) + points[n][f]

\* How many readings the flushes before flush k took.
RECURSIVE FlushedBefore(_)
FlushedBefore(k) ==
    IF k = 1 THEN 0 ELSE FlushedBefore(k - 1) + Len(flushes[k - 1].points)

\* The spec's example: temperatures 24.0, 26.0 and 28.0.
ExampleBatch ==
    << Reading([temperature |-> 24, humidity |-> 28, ppm |-> 5], 1),
       Reading([temperature |-> 26, humidity |-> 30, ppm |-> 7], 2),
       Reading([temperature |-> 28, humidity |-> 29, ppm |-> 6], 3) >>

\* C13: each average of a flush is the sum of its field over the readings of
\* the batch divided by their number; the batch is exactly the readings put
\* since the previous flush took its batch, in the order they were put; once
\* the flush is over, the buffer holds none of them.  For temperatures 24, 26
\* and 28 the averaged temperature is exactly 26.
C13_FlushAveragesItsBatch ==
    /\ \A k \in DOMAIN flushes :
         LET batch == flushes[k].points
             avg == flushes[k].averages
         IN /\ avg.num_points = Len(batch)
            /\ \A f \in DOMAIN FieldOf :
                 /\ avg[f].over = Len(batch)
                 /\ avg[f].sum = TotalUpTo(batch, FieldOf[f], Len(batch))
            /\ \A i \in DOMAIN batch : batch[i].src = FlushedBefore(k) + i
    /\ upc # "send" =>
         \A i \in DOMAIN data_buffer : FlushCount(data_buffer[i].src) = 0
    /\ LET avg_temp == Averages(ExampleBatch, 0).avg_temp
       IN avg_temp.sum = 26 * avg_temp.over

\* A flush has averaged two readings with different values and is over, and
\* the buffer is empty.
C13_Witness ==
    /\ \E k \in DOMAIN flushes :
         /\ Len(flushes[k].points) = 2
         /\ flushes[k].points[1].temperature # flushes[k].points[2].temperature
         /\ flushes[k].success # "pending"
    /\ upc = "sleep"
    /\ data_buffer = <<>>

\* The send of flush k is over and the sink call raised or returned a failure
\* signal.
SendFailed(k) ==
    /\ flushes[k].success # "pending"
    /\ ~SinkSucceeded(flushes[k].response)

\* C14: a send that failed (the sink raised or answered with a failure
\* signal) does not end the upload loop; the batch of that flush is sent in
\* no other flush and does not stay in the buffer, and the next flush comes a
\* full interval later with only readings put after the failed flush took
\* its batch.
C14_FailedSendDiscardsBatchAndGoesOn ==
    /\ upc # "ended"
    /\ \A k \in DOMAIN flushes :
         SendFailed(k) =>
           /\ \A i \in DOMAIN flushes[k].points :
                /\ FlushCount(flushes[k].points[i].src) = 1
                /\ Waiting(flushes[k].points[i].src) = 0
           /\ k = Len(flushes) => upc \in {"sleep", "drain"}
           /\ k < Len(flushes) =>
                /\ flushes[k + 1].time - flushes[k].time >= FLUSH_INTERVAL
                /\ \A i \in DOMAIN flushes[k].points :
                     \A j \in DOMAIN flushes[k + 1].points :
                       flushes[k + 1].points[j].src > flushes[k].points[i].src

\* The send of the first flush failed, and the second flush has come one
\* interval later with a reading put in the meantime.
C14_Witness ==
    /\ Len(flushes) = 2
    /\ SendFailed(1)
    /\ flushes[2].time = flushes[1].time + FLUSH_INTERVAL
    /\ flushes[2].points # <<>>

(***************************************************************************)
(* Error containment of the receive path, checked under SpecRx.            *)
(***************************************************************************)
\* C15: whatever is wrong with a message (too short, wrong start delimiter,
\* length mismatch, checksum mismatch, text that cannot be extracted or
\* parsed), no error leaves the receive callback: the message is discarded
\* and the callback returns.
C15_NoErrorLeavesCallback ==
    \A i \in DOMAIN deliveries : deliveries[i].outcome # "raised"

(***************************************************************************)
(* The receive context and send_data, checked under SpecSend2.             *)
(***************************************************************************)
\* C16: the receive callback performs no send itself, so the receive context
\* is never inside send_data, neither in its rate-limit sleep nor in its sink
\* call.
C16_ReceiveContextNeverInSend ==
    spc["callback"] = "idle"

(***************************************************************************)
(* Properties of the polling upload loops, checked under SpecPoll.         *)
(***************************************************************************)
\* C17: every data point the polling loop has collected is, field for field,
\* one of the readings the callback stored: no point mixes the fields of two
\* readings.
C17_CollectedPointIsOneReading ==
    \A i \in DOMAIN polled : \E j \in DOMAIN stored : polled[i] = stored[j]

\* The bytes b begin a frame that is not all there: the start delimiter, and
\* fewer bytes than the length field asks for (or no length field yet).
PartialFrame(b) ==
    /\ b # <<>>
    /\ b[1] = START_DELIMITER
    /\ Len(b) < 3 \/ Len(b) < b[2] * 256 + b[3] + 4

\* The size of the frame at the head of b, from its length field.
TotalFrameSize(b) == b[2] * 256 + b[3] + 4

\* The bytes b begin with a whole frame whose checksum is right.
WholeFrameAtHead(b) ==
    /\ Len(b) >= 4
    /\ b[1] = START_DELIMITER
    /\ Len(b) >= TotalFrameSize(b)
    /\ TrailingChecksumOK(Take(b, TotalFrameSize(b)))

\* C18: a call of _read_api_frame that finds only the beginning of a frame
\* (buffer and new bytes together) returns no frame and keeps every byte; the
\* call that appends the rest of it to that beginning returns the frame's
\* payload and removes length + 4 bytes, no more and no less.
C18_PartialFrameKeptThenReturned ==
    [][(variant = "part1" /\ pos' = pos) =>
         LET b == buffer \o uart
         IN /\ PartialFrame(b) =>
                 /\ buffer' = b
                 /\ returned' = returned
            /\ (PartialFrame(buffer) /\ uart # <<>> /\ WholeFrameAtHead(b)) =>
                 /\ returned' = Append(returned,
                                       [some |-> TRUE,
                                        data |-> SubSeq(b, 4, TotalFrameSize(b) - 1),
                                        raw |-> Take(b, TotalFrameSize(b))])
                 /\ buffer' = Drop(b, TotalFrameSize(b))]_vars

\* A frame that arrived in at least two reads has been returned.
C18_Witness ==
    /\ variant = "part1"
    /\ stream = MkFrame(Rx16(TextA))
    /\ pos = Len(stream)
    /\ reads = 2
    /\ Len(returned) = 1
    /\ returned[1].data = Rx16(TextA)
    /\ buffer = <<>>
    /\ uart = <<>>

\* Every byte of the stream has arrived and has been read by update().
AllRead == pos = Len(stream) /\ uart = <<>>

\* The readings update() has stored are just one, with this temperature.
OneReadingWith(t) == Len(readings1) = 1 /\ readings1[1].temperature = t

\* C19, as stated: the stream 7E 00 0C 90 00 13 A2 00 42 01 09 17 FF FE 01
\* "DATA:TEMP:26" <checksum> gives no reading while bytes are missing, and a
\* reading of 26 degrees once all of it has been read.
C19_ExampleStreamDecodes ==
    (variant = "part1" /\ stream = ExampleStream) =>
        /\ pos < Len(stream) => readings1 = <<>>
        /\ AllRead => OneReadingWith(26)

\* C19, amended: the 0x90 frame with the same header whose length field
\* counts its bytes and whose text is "DATA:TEMP:26,HUM:28,PPM:1421194" gives
\* no reading while bytes are missing, and a reading of 26 degrees once all of
\* it has been read.
C19_WholeFrameDecodes ==
    (variant = "part1" /\ stream = WholeExampleStream) =>
        /\ pos < Len(stream) => readings1 = <<>>
        /\ AllRead => OneReadingWith(26)

\* The frame came in at least two reads, the first of them cut short, and
\* its reading is stored.
C19_Witness ==
    /\ variant = "part1"
    /\ stream = WholeExampleStream
    /\ AllRead
    /\ reads = 2
    /\ OneReadingWith(26)
    /\ readings1[1].humidity = 28
    /\ readings1[1].ppm = 1421194

\* The text a stored reading was parsed from.
ReadingText(reading) ==
    ProcessRxPacket(SubSeq(reading.raw, 4, Len(reading.raw) - 1)).text

\* "DATA:TEMP:<number>,HUM:<number>,PPM:<number>": three fields, with these
\* labels, in this order.
DocumentedFormat(text) ==
    LET parts == Split(text, COMMA)
    IN /\ Len(parts) = 3
       /\ LET temp_part == Split(parts[1], COLON)
              hum_part == Split(parts[2], COLON)
              ppm_part == Split(parts[3], COLON)
          IN /\ Len(temp_part) = 3
             /\ temp_part[1] = <<68, 65, 84, 65>>           \* "DATA"
             /\ temp_part[2] = <<84, 69, 77, 80>>           \* "TEMP"
             /\ FloatParses(temp_part[3])
             /\ Len(hum_part) = 2
             /\ hum_part[1] = <<72, 85, 77>>                \* "HUM"
             /\ FloatParses(hum_part[2])
             /\ Len(ppm_part) = 2
             /\ ppm_part[1] = <<80, 80, 77>>                \* "PPM"
             /\ FloatParses(ppm_part[2])

\* C20: the parser gives a reading only for a text of the documented format,
\* the fields TEMP, HUM, PPM in this order with numeric values; any other
\* text gives None, so that no reading is stored for it.
C20_OnlyDocumentedFormatParses ==
    \A i \in DOMAIN readings1 : DocumentedFormat(ReadingText(readings1[i]))

(***************************************************************************)
(* Properties of parse_data, checked under SpecParse.                      *)
(***************************************************************************)
\* C21, as stated: whatever it is given, text, bytearray or immutable bytes,
\* well-formed or not, parse_data returns a tuple or None and no exception
\* leaves it.
C21_NoExceptionLeavesParseData ==
    \A i \in DOMAIN parsed : ~parsed[i].outcome.raised

\* C21, amended: given a text or a bytearray (valid UTF-8 or not, with too few
\* fields, with non-numeric values), parse_data returns a tuple or None and no
\* exception leaves it; None is returned exactly when something was raised
\* inside it or the prefix is missing.
C21_NoExceptionForTextOrBytearray ==
    \A i \in DOMAIN parsed :
        parsed[i].input.kind \in {"str", "bytearray"} =>
            /\ ~parsed[i].outcome.raised
            /\ parsed[i].outcome.result.ok <=>
                   /\ ParseDataRaises(parsed[i].input) = "none"
                   /\ StartsWith(parsed[i].input.data, DATA_PREFIX)

\* parse_data has returned None for a bytearray that is not UTF-8 and for a
\* text with too few fields.
C21_Witness ==
    /\ Len(parsed) = 2
    /\ parsed[1].input = [kind |-> "bytearray", data |-> TextNotUtf8]
    /\ parsed[1].outcome = [raised |-> FALSE, result |-> ParseNone]
    /\ parsed[2].input = [kind |-> "str", data |-> TextTemp26]
    /\ parsed[2].outcome = [raised |-> FALSE, result |-> ParseNone]

\* Everything after the type byte and a header of the width that widths gives
\* for the tag, as text; nothing for another tag or for a payload that does
\* not hold the whole header.
DataAfterHeader(frame_data, widths) ==
    IF frame_data = <<>> \/ frame_data[1] \notin DOMAIN widths THEN <<>>
    ELSE IF Len(frame_data) < 1 + widths[frame_data[1]] THEN <<>>
    ELSE IF ~Utf8Decodes(Drop(frame_data, 1 + widths[frame_data[1]])) THEN <<>>
    ELSE Drop(frame_data, 1 + widths[frame_data[1]])

\* The readings that the frames give when the application data is
\* DataAfterHeader.
RECURSIVE ReadingsAfterHeader(_, _)
ReadingsAfterHeader(frames, widths) ==
    IF frames = <<>> THEN <<>>
    ELSE LET result == ParseDataString(DataAfterHeader(Head(frames).data, widths))
         IN (IF result.ok
             THEN <<[temperature |-> result.temperature,
                     humidity |-> result.humidity, ppm |-> result.ppm,
                     raw |-> Head(frames).raw]>>
             ELSE <<>>)
            \o ReadingsAfterHeader(Tail(frames), widths)

\* Header widths after the type byte.  As stated: 8 + 1 for 0x80, 2 + 1 for
\* 0x81, 8 + 2 + 1 for 0x90.
StatedWidths == (128 :> 9) @@ (129 :> 3) @@ (144 :> 11)

\* Amended: 8 + 1 + 1 for 0x80 and 2 + 1 + 1 for 0x81 (address, RSSI,
\* options), 8 + 2 + 1 for 0x90.
RssiOptionsWidths == (128 :> 10) @@ (129 :> 4) @@ (144 :> 11)

\* C22, as stated: the application data of a frame, from which its reading is
\* parsed, is everything after a header of 8 address bytes + 1 status byte
\* (0x80), 2 address bytes + 1 status byte (0x81), 8 address bytes + 2
\* network-address bytes + 1 options byte (0x90).
C22_DataAfterStatedHeader ==
    variant = "part1" => readings1 = ReadingsAfterHeader(returned, StatedWidths)

\* C22, amended: the application data is everything after a header of 8
\* address bytes + 1 RSSI byte + 1 options byte (0x80), 2 address bytes + 1
\* RSSI byte + 1 options byte (0x81), 8 address bytes + 2 network-address
\* bytes + 1 options byte (0x90).
C22_DataAfterRssiOptionsHeader ==
    variant = "part1" => readings1 = ReadingsAfterHeader(returned, RssiOptionsWidths)

\* One frame of each type has been returned and each gave its reading.
C22_Witness ==
    /\ variant = "part1"
    /\ stream = ThreeTagsStream
    /\ Len(returned) = 3
    /\ Len(readings1) = 3
    /\ readings1[1].temperature = 24
    /\ readings1[2].temperature = 26
    /\ readings1[3].ppm = 1421194

\* The payload has a type byte that is no receive type, or is shorter than
\* the smallest payload of its type (11, 5 and 12 bytes).
UnknownOrShort(frame_data) ==
    /\ frame_data # <<>>
    /\ \/ frame_data[1] \notin {RX_PACKET_64, RX_PACKET_16, RX_PACKET}
       \/ Len(frame_data) < 1 + RssiOptionsWidths[frame_data[1]]

\* The returned frame has its reading stored.
HasReading(frame) == \E j \in DOMAIN readings1 : readings1[j].raw = frame.raw

\* C23: a frame whose payload has an unrecognized type tag, or is shorter
\* than the header of its tag, gives no reading, and a frame with a reading
\* that is returned after it has its reading stored all the same.
C23_OddPayloadGivesNothingAndIsPassed ==
    variant = "part1" =>
        \A i \in DOMAIN returned :
            UnknownOrShort(returned[i].data) =>
                /\ ~HasReading(returned[i])
                /\ \A k \in (i + 1)..Len(returned) :
                       ParseDataString(DataAfterHeader(returned[k].data,
                                                       RssiOptionsWidths)).ok
                           => HasReading(returned[k])

\* A frame with an unknown tag and a frame too short for its tag have been
\* returned, and the reading of the frame after them is stored.
C23_Witness ==
    /\ variant = "part1"
    /\ stream = OddFramesStream
    /\ Len(returned) = 3
    /\ UnknownOrShort(returned[1].data)
    /\ UnknownOrShort(returned[2].data)
    /\ Len(readings1) = 1
    /\ readings1[1].raw = returned[3].raw
    /\ readings1[1].temperature = 26

\* The bytes of a returned frame between its length field and its checksum.
WirePayload(frame) == SubSeq(frame.raw, 4, Len(frame.raw) - 1)

\* C24: the payload that the decoder returns for a frame whose checksum
\* matches is the frame's payload with its escapes resolved: every 0x7D
\* removed and the byte after it XORed with 0x20.
C24_ReturnedPayloadIsUnescaped ==
    variant = "part1" =>
        \A i \in DOMAIN returned :
            returned[i].data = UnescapeData(WirePayload(returned[i]))

(***************************************************************************)
(* Properties of _unescape_data, checked under SpecUnescape.               *)
(***************************************************************************)
\* The last byte of data is an escape byte that no escape byte before it
\* consumes.
RECURSIVE DanglingEscape(_)
DanglingEscape(data) ==
    IF data = <<>> THEN FALSE
    ELSE IF data[1] = ESCAPE
    THEN Len(data) = 1 \/ DanglingEscape(Drop(data, 2))
    ELSE DanglingEscape(Tail(data))

\* C25: unescaping a payload that ends with an escape byte without a byte
\* after it yields no payload (the frame is malformed and discarded); it does
\* not yield the payload with the escape byte left out.
C25_DanglingEscapeYieldsNoPayload ==
    \A i \in DOMAIN unescaped :
        DanglingEscape(unescaped[i].input) => ~unescaped[i].outcome.some

(***************************************************************************)
(* More properties of the upload loop, checked under SpecPipe.             *)
(***************************************************************************)
\* The sink took the update of flush k.
CycleSucceeded(k) ==
    /\ flushes[k].success = "sent"
    /\ ~flushes[k].response.raised
    /\ flushes[k].response.value > 0

\* C26: the sender's minimum interval is the flush interval, so the flush
\* after a cycle whose send succeeded never waits for the rate limit inside
\* send_data.
C26_NoRateLimitWaitAfterSuccess ==
    (variant = "pipeline" /\ Len(flushes) >= 2 /\ CycleSucceeded(Len(flushes) - 1))
        => spc["upload"] # "sleep"

(***************************************************************************)
(* More properties of the polling upload loops, checked under SpecPoll.    *)
(***************************************************************************)
\* C27: the polling loop captures every reading: a reading that the callback
\* has stored and a later reading has overwritten is among the data points
\* the loop collected.
C27_OverwrittenReadingWasCollected ==
    \A j \in 1..(Len(stored) - 1) : \E i \in DOMAIN polled : polled[i] = stored[j]

(***************************************************************************)
(* More properties of the frame reader, checked under SpecRx.              *)
(***************************************************************************)
\* s is one whole frame with the right checksum, and nothing else.
OneWholeFrame(s) == WholeFrameAtHead(s) /\ TotalFrameSize(s) = Len(s)

\* s is a frame with a wrong checksum byte, as long as its length field
\* says, followed by one whole frame with the right checksum.
CorruptThenWhole(s) ==
    /\ Len(s) >= 4
    /\ s[1] = START_DELIMITER
    /\ Len(s) > TotalFrameSize(s)
    /\ ~TrailingChecksumOK(Take(s, TotalFrameSize(s)))
    /\ OneWholeFrame(Drop(s, TotalFrameSize(s)))

\* The payload of the frame s.
PayloadOf(s) == SubSeq(s, 4, Len(s) - 1)

\* C28: a frame whose checksum does not match is removed with length + 4
\* bytes, so that the frame after it is returned and nothing else is,
\* whatever its payload holds; and a frame with a 0x7E byte in its payload is
\* returned whole.
C28_MismatchRemovesWholeFrame ==
    variant = "part1" =>
        /\ CorruptThenWhole(stream) =>
              LET whole == Drop(stream, TotalFrameSize(stream))
              IN /\ ReturnedData \in {<<>>, <<PayloadOf(whole)>>}
                 /\ AllRead => ReturnedData = <<PayloadOf(whole)>>
        /\ (OneWholeFrame(stream)
               /\ \E i \in DOMAIN PayloadOf(stream) :
                      PayloadOf(stream)[i] = START_DELIMITER) =>
              /\ ReturnedData \in {<<>>, <<PayloadOf(stream)>>}
              /\ AllRead => ReturnedData = <<PayloadOf(stream)>>

\* The frame with the wrong checksum and a frame nested in its payload has
\* been read, in more than one read, and only the frame after it was returned.
C28_Witness ==
    /\ variant = "part1"
    /\ stream = NestedFrameStream
    /\ AllRead
    /\ reads = 2
    /\ buffer = <<>>
    /\ ReturnedData = << <<1>> >>

\* The number of bytes other than the start delimiter at the head of s.
RECURSIVE NoiseLen(_)
NoiseLen(s) ==
    IF s = <<>> \/ s[1] = START_DELIMITER THEN 0 ELSE 1 + NoiseLen(Tail(s))

\* s is some bytes other than the start delimiter and then one whole frame
\* with the right checksum.
NoiseThenWhole(s) == NoiseLen(s) > 0 /\ OneWholeFrame(Drop(s, NoiseLen(s)))

\* C29: of a stream of noise and one valid frame, the noise is dropped (what
\* is left of it in the buffer, waiting for more bytes, is three bytes at
\* most) and the frame is returned with the payload it has without the noise.
C29_NoiseIsDroppedAndFrameDecoded ==
    (variant = "part1" /\ NoiseThenWhole(stream)) =>
        LET whole == Drop(stream, NoiseLen(stream))
        IN /\ (buffer # <<>> /\ buffer[1] # START_DELIMITER) => Len(buffer) <= 3
           /\ ReturnedData \in {<<>>, <<PayloadOf(whole)>>}
           /\ AllRead => (buffer = <<>> /\ ReturnedData = <<PayloadOf(whole)>>)
           /\ ReturnedData # <<>> =>
                  ReturnedData = [i \in 1..1 |-> ReadLoop(whole).frame.data]

\* Five bytes of noise and a frame have been read in two reads, and the frame's
\* payload was returned.
C29_Witness ==
    /\ variant = "part1"
    /\ stream = <<0, 0, 4, 1, 255>> \o MkFrame(<<126, 0>>)
    /\ AllRead
    /\ reads = 2
    /\ buffer = <<>>
    /\ ReturnedData = << <<126, 0>> >>

\* C30, as stated: a frame with no payload bytes and the right checksum is
\* returned by the reader as a frame, and the extraction of its application
\* data gives empty data, not the None that stands for no data.
C30_ZeroLengthFrameYieldsEmptyData ==
    variant = "part1" =>
        \A i \in DOMAIN returned :
            returned[i].raw = MkFrame(<<>>) =>
                /\ returned[i].some
                /\ returned[i].data = <<>>
                /\ ProcessRxPacket(returned[i].data) = [some |-> TRUE, text |-> <<>>]

\* C31, as stated: a whole frame with the right checksum at the head of the
\* decoder's buffer is returned by one of the calls that follow, whether or
\* not more bytes arrive.
C31_BufferedFrameIsReturned ==
    (variant = "part1" /\ WholeFrameAtHead(buffer)) ~> (last_read = "frame")

(***************************************************************************)
(* More properties of the duplicate test, checked under SpecRx.            *)
(***************************************************************************)
\* The deliveries that were not suppressed, of all senders or of sender s.
Accepted == {i \in DOMAIN deliveries : deliveries[i].outcome # "suppressed"}
AcceptedFrom(s) == {i \in Accepted : deliveries[i].sender = s}

\* The last of a non-empty set of deliveries.
LastOf(S) == CHOOSE i \in S : \A j \in S : j <= i

\* The slot holds the payload and the time of delivery i.
SlotHolds(id, t, i) ==
    /\ id = [set |-> TRUE, id |-> deliveries[i].data]
    /\ t = deliveries[i].time

\* C32: the stored message and the stored time are those of the last delivery
\* that was not suppressed (per sender in the multi-node callback), so a
\* suppressed duplicate changes neither; and of three identical messages 0.6 s
\* apart, the first of them accepted, the second is suppressed and the third,
\* 1.2 s after the first, is accepted.
C32_WindowFromLastAccepted ==
    variant \in {"root", "multi"} =>
        /\ variant = "root" =>
              IF Accepted = {} THEN ~last_frame_id.set
              ELSE SlotHolds(last_frame_id, last_frame_time, LastOf(Accepted))
        /\ variant = "multi" =>
              \A s \in Senders :
                  IF AcceptedFrom(s) = {} THEN ~last_frame_ids[s].set
                  ELSE SlotHolds(last_frame_ids[s], last_frame_times[s],
                                 LastOf(AcceptedFrom(s)))
        /\ \A i \in DOMAIN deliveries :
              (/\ i + 2 \in DOMAIN deliveries
               /\ i \in Accepted
               /\ \A j \in {i + 1, i + 2} :
                     /\ deliveries[j].data = deliveries[i].data
                     /\ deliveries[j].sender = deliveries[i].sender
                     /\ deliveries[j].time - deliveries[j - 1].time = 6)
                  => /\ deliveries[i + 1].outcome = "suppressed"
                     /\ deliveries[i + 2].outcome = deliveries[i].outcome

\* The same message three times, 0.6 s apart: enqueued, suppressed, enqueued,
\* and the slot holds the time of the third.
C32_Witness ==
    /\ variant = "root"
    /\ Len(deliveries) = 3
    /\ \A i \in 1..3 : deliveries[i].data = TextA /\ deliveries[i].sender = Sender1
    /\ deliveries[2].time = deliveries[1].time + 6
    /\ deliveries[3].time = deliveries[1].time + 12
    /\ deliveries[1].outcome = "enqueued"
    /\ deliveries[2].outcome = "suppressed"
    /\ deliveries[3].outcome = "enqueued"
    /\ last_frame_time = deliveries[3].time

\* C33: in the callback that open() registers, a message is suppressed only
\* when it repeats the message delivered just before it; messages A, B, A
\* with A different from B are all processed, however close in time.  A
\* message that does not parse takes the slot like any other: its repetition
\* within 1.0 s is suppressed, and the message accepted before it is accepted
\* again after it.
C33_OnlyMostRecentIsCompared ==
    variant = "root" =>
        \A i \in DOMAIN deliveries :
            /\ deliveries[i].outcome = "suppressed" =>
                  /\ i > 1
                  /\ deliveries[i].data = deliveries[i - 1].data
            /\ (/\ i = Len(deliveries)
                /\ deliveries[i].outcome \in {"parse failed", "exception caught"})
                  => SlotHolds(last_frame_id, last_frame_time, i)
            /\ (/\ i > 1
                /\ deliveries[i - 1].outcome \in {"parse failed", "exception caught"}
                /\ deliveries[i].data = deliveries[i - 1].data
                /\ deliveries[i].time - deliveries[i - 1].time < DEDUP_WINDOW)
                  => deliveries[i].outcome = "suppressed"

\* A, B, A within 0.6 s: all three enqueued.
C33_Witness ==
    /\ variant = "root"
    /\ Len(deliveries) = 3
    /\ deliveries[1].data = TextA /\ deliveries[2].data = TextB
    /\ deliveries[3].data = TextA
    /\ deliveries[3].time - deliveries[1].time = 6
    /\ \A i \in 1..3 : deliveries[i].outcome = "enqueued"
    /\ Len(data_queue.items) = 3

(***************************************************************************)
(* Properties of the callback run by two threads, checked under            *)
(* SpecThreads.                                                            *)
(***************************************************************************)
\* The deliveries that put a reading on the queue.
Enqueued == {i \in DOMAIN deliveries : deliveries[i].outcome = "enqueued"}

\* Both threads have been handed the same message less than 1.0 s apart, and
\* both have left the callback.
SameMessageAtOnce ==
    /\ \A t \in Threads : tpc[t] = "done"
    /\ \A t, u \in Threads :
          /\ tmsg[t] = tmsg[u]
          /\ tnow[t] - tnow[u] < DEDUP_WINDOW

\* C34, as stated: when the same message reaches the callback from the two
\* threads at once, at most one of the two deliveries enqueues a reading.
C34_AtMostOneDeliveryEnqueues ==
    (variant = "threads" /\ SameMessageAtOnce) => Cardinality(Enqueued) <= 1

\* C35, as stated: once main() has started the upload thread and monitoring
\* has begun, every message the callback parses into a reading puts that
\* reading on the queue.
C35_EveryParsedReadingIsEnqueued ==
    variant = "threads" =>
        \A i \in DOMAIN deliveries :
            (deliveries[i].outcome # "suppressed" /\ ParseData(deliveries[i].data).ok)
                => /\ deliveries[i].outcome = "enqueued"
                   /\ i \in QueueSources

\* C36, as stated: no reading the callback stored is collected by the polling
\* loop more than once.  (Two stored readings with the same values are two
\* readings: the property is about readings that differ.)
C36_NoReadingCollectedTwice ==
    variant \in {"norace", "race_datavar"} =>
        \A j \in DOMAIN stored :
            (\A k \in DOMAIN stored : k # j => stored[k] # stored[j])
                => Cardinality({i \in DOMAIN polled : polled[i] = stored[j]}) <= 1
====
